---- MODULE Spec2Model ----
(***************************************************************************)
(* Model of the CARIAMA media archive utilities (package mediautils):      *)
(* the index codec of indexing.py and the File / Directory / importFile    *)
(* operations of fdmgm.py, over an abstract filesystem.                    *)
(*                                                                         *)
(* Strings that the code takes apart (file names, indexes) are sequences   *)
(* of one-character strings.  A timestamp is a pair <<sec, frac>>: whole   *)
(* seconds since the epoch and the sub-second part in tenths, which is     *)
(* what a Python float mtime carries.                                      *)
(***************************************************************************)
EXTENDS Integers, Sequences, FiniteSets, TLC

VARIABLES
  tz,      \* the local time zone of the machine
  fs,      \* the files on disk
  hs,      \* the File objects the caller holds, by number
  last,    \* the last call: its arguments, outcome and the state it started in
  scan,    \* the Directory.checkIntegrity call in progress
  calls,   \* how many calls the caller may still make
  codec,   \* the last call of an indexing function and its outcome
  outside  \* has a file been removed by something other than the package

vars == <<tz, fs, hs, last, scan, calls, codec, outside>>

None == "None"

(***************************************************************************)
(* preferences.py                                                          *)
(***************************************************************************)
INDEX_PREFIX ==
  [footage |-> <<"M","V","D","C">>,
   ctraps  |-> <<"T","R","D","C">>,
   audio   |-> <<"M","S","D","C">>]

MediaTypes == DOMAIN INDEX_PREFIX

PrefixValues == {INDEX_PREFIX[k] : k \in MediaTypes}

INDEX_SUFFIX_LENGTH == 5

\* len(time.strftime('%Y%m%d%H%M%S', ...)): 4+2+2+2+2+2
INDEX_DATETIME_LENGTH == 14

(***************************************************************************)
(* Characters                                                              *)
(***************************************************************************)
Digits == {"0","1","2","3","4","5","6","7","8","9"}

Letters ==
  {"A","B","C","D","E","F","G","H","I","J","K","L","M","N","O","P","Q","R",
   "S","T","U","V","W","X","Y","Z",
   "a","b","c","d","e","f","g","h","i","j","k","l","m","n","o","p","q","r",
   "s","t","u","v","w","x","y","z"}

DigitChar(n) == <<"0","1","2","3","4","5","6","7","8","9">>[n + 1]

DigitVal(c) ==
  CASE c = "0" -> 0 [] c = "1" -> 1 [] c = "2" -> 2 [] c = "3" -> 3
    [] c = "4" -> 4 [] c = "5" -> 5 [] c = "6" -> 6 [] c = "7" -> 7
    [] c = "8" -> 8 [] c = "9" -> 9

\* str(number) for a non-negative int
RECURSIVE IntToStr(_)
IntToStr(n) == IF n < 10 THEN <<DigitChar(n)>>
               ELSE Append(IntToStr(n \div 10), DigitChar(n % 10))

\* int(s) for a string of decimal digits
RECURSIVE StrToInt(_)
StrToInt(s) == IF s = <<>> THEN 0
               ELSE 10 * StrToInt(SubSeq(s, 1, Len(s) - 1)) + DigitVal(s[Len(s)])

RECURSIVE Pow10(_)
Pow10(k) == IF k = 0 THEN 1 ELSE 10 * Pow10(k - 1)

AllDigits(s) == \A i \in 1..Len(s) : s[i] \in Digits

\* length of the longest run of letters at the start of s: what the greedy
\* group [A-Za-z]+ takes when a non-letter (or the end) has to follow it
RECURSIVE LetterRun(_)
LetterRun(s) == IF s = <<>> \/ Head(s) \notin Letters THEN 0
                ELSE 1 + LetterRun(Tail(s))

(***************************************************************************)
(* Results of the codec functions: a value or the exception raised         *)
(***************************************************************************)
Ok(v)  == [err |-> "none", val |-> v]
Err(e) == [err |-> e,      val |-> <<>>]

(***************************************************************************)
(* indexing.numberFormatToString                                           *)
(***************************************************************************)
PadLeft(s, length) ==
  [i \in 1..length |-> IF i <= length - Len(s) THEN "0" ELSE s[i - (length - Len(s))]]

\* a Python value passed as number: its type and, for an int, its value
PyInt(n)    == [type |-> "int", val |-> n]
PyFloat(n)  == [type |-> "float", val |-> n]
PyBool(n)   == [type |-> "bool", val |-> n]

\* a mutation: the leading digits are kept, not the last ones
numberFormatKeepLeading(number, length, strict) ==
  IF number.type # "int" THEN Err("TypeError")
  ELSE IF length < 1 THEN Ok(None)
  ELSE IF number.val < 0 THEN Err("ValueError")
  ELSE IF number.val >= Pow10(length)
       THEN IF strict THEN Err("ValueError")
            ELSE Ok(SubSeq(IntToStr(number.val), 1, length))
  ELSE Ok(PadLeft(IntToStr(number.val), length))

numberFormatToString(number, length, strict) ==
  IF number.type # "int" THEN Err("TypeError")
  ELSE IF length < 1 THEN Ok(None)
  ELSE IF number.val < 0 THEN Err("ValueError")
  ELSE IF number.val >= Pow10(length)
       THEN IF strict THEN Err("ValueError")
            ELSE LET numString == IntToStr(number.val)
                 IN  Ok(SubSeq(numString, Len(numString) - length + 1, Len(numString)))
  ELSE Ok(PadLeft(IntToStr(number.val), length))

(***************************************************************************)
(* Local time.  datetime.fromtimestamp / strftime and time.strptime /      *)
(* time.mktime work in the local zone of the machine.  A zone is its       *)
(* standard offset from UTC, one daylight-saving period [dstFrom, dstTo)   *)
(* in which the offset is one hour more, and the reading mktime prefers    *)
(* for a wall-clock time that is repeated or skipped (tm_isdst = -1 leaves *)
(* that to the C library).  pre1970 is what the platform's localtime does  *)
(* with an instant before 1970: "ok" where it converts it (POSIX),         *)
(* "OSError" where it refuses it (Windows).                                *)
(***************************************************************************)
ZoneUTC == [std |-> 0, dstFrom |-> 0, dstTo |-> 0, prefer |-> "std", pre1970 |-> "ok"]

\* America/Sao_Paulo, summer 2015/16: UTC-3, daylight saving from
\* 2015-10-18 03:00:00 UTC to 2016-02-21 02:00:00 UTC
ZoneBRT(prefer) ==
  [std |-> -10800, dstFrom |-> 1445137200, dstTo |-> 1456020000, prefer |-> prefer,
   pre1970 |-> "ok"]

Zones == {ZoneUTC, ZoneBRT("dst"), ZoneBRT("std")}

InDst(z, T) == z.dstFrom <= T /\ T < z.dstTo

UtcOffset(z, T) == IF InDst(z, T) THEN z.std + 3600 ELSE z.std

IsLeap(y) == (y % 4 = 0 /\ y % 100 # 0) \/ y % 400 = 0

DaysInMonth(y, m) ==
  IF m = 2 THEN (IF IsLeap(y) THEN 29 ELSE 28)
  ELSE IF m \in {4, 6, 9, 11} THEN 30 ELSE 31

\* days since 1970-01-01 of a proleptic Gregorian date
DaysFromCivil(y0, m, d) ==
  LET y   == IF m <= 2 THEN y0 - 1 ELSE y0
      era == y \div 400
      yoe == y - era * 400
      mp  == IF m > 2 THEN m - 3 ELSE m + 9
      doy == (153 * mp + 2) \div 5 + d - 1
      doe == yoe * 365 + yoe \div 4 - yoe \div 100 + doy
  IN  era * 146097 + doe - 719468

CivilFromDays(z0) ==
  LET z   == z0 + 719468
      era == z \div 146097
      doe == z - era * 146097
      yoe == (doe - doe \div 1460 + doe \div 36524 - doe \div 146096) \div 365
      doy == doe - (365 * yoe + yoe \div 4 - yoe \div 100)
      mp  == (5 * doy + 2) \div 153
      d   == doy - (153 * mp + 2) \div 5 + 1
      m   == IF mp < 10 THEN mp + 3 ELSE mp - 9
      y   == yoe + era * 400 + (IF m <= 2 THEN 1 ELSE 0)
  IN  [Y |-> y, M |-> m, D |-> d]

\* broken-down wall-clock time of L seconds counted from 1970-01-01 00:00:00
BrokenDown(L) ==
  LET rem == L % 86400
      At(c) == [Y |-> c.Y, M |-> c.M, D |-> c.D,
                h |-> rem \div 3600, m |-> (rem % 3600) \div 60, s |-> rem % 60]
  IN  At(CivilFromDays(L \div 86400))

\* datetime.fromtimestamp(ts): the local wall-clock time; strftime with
\* '%Y%m%d%H%M%S' then drops the sub-second part
FromTimestamp(z, ts) == BrokenDown(ts[1] + UtcOffset(z, ts[1]))

\* .strftime(INDEX_DATETIME_FORMAT)
Strftime(lt) ==
  PadLeft(IntToStr(lt.Y), 4) \o PadLeft(IntToStr(lt.M), 2) \o
  PadLeft(IntToStr(lt.D), 2) \o PadLeft(IntToStr(lt.h), 2) \o
  PadLeft(IntToStr(lt.m), 2) \o PadLeft(IntToStr(lt.s), 2)

\* time.strptime(s, '%Y%m%d%H%M%S') on a string of 14 digits: every field
\* takes its full width; %S accepts 00..61; the date must exist
Strptime(s) ==
  LET Checked(lt) ==
        IF /\ lt.Y >= 1
           /\ lt.M \in 1..12
           /\ lt.D >= 1 /\ lt.D <= DaysInMonth(lt.Y, lt.M)
           /\ lt.h <= 23 /\ lt.m <= 59 /\ lt.s <= 61
        THEN Ok(lt) ELSE Err("ValueError")
  IN  Checked([Y |-> StrToInt(SubSeq(s, 1, 4)),   M |-> StrToInt(SubSeq(s, 5, 6)),
               D |-> StrToInt(SubSeq(s, 7, 8)),   h |-> StrToInt(SubSeq(s, 9, 10)),
               m |-> StrToInt(SubSeq(s, 11, 12)), s |-> StrToInt(SubSeq(s, 13, 14))])

\* time.mktime(lt) with tm_isdst = -1: the instant whose local wall-clock
\* time is lt (seconds 60 and 61 carry into the next minute)
Mktime(z, lt) ==
  LET Instant(L) ==
        LET asDst == L - (z.std + 3600)
            asStd == L - z.std
        IN  IF InDst(z, asDst) /\ ~InDst(z, asStd)
            THEN (IF z.prefer = "dst" THEN asDst ELSE asStd)
            ELSE IF InDst(z, asDst) THEN asDst
            ELSE IF ~InDst(z, asStd) THEN asStd
            ELSE (IF z.prefer = "dst" THEN asDst ELSE asStd)
  IN  Instant(DaysFromCivil(lt.Y, lt.M, lt.D) * 86400 + lt.h * 3600 + lt.m * 60 + lt.s)

(***************************************************************************)
(* indexing.parseIndex.  The three expressions the package parses with:    *)
(*   "index": INDEX_PARSING_EXPRESSION  (pref)(date: 14 digits)(suff: 5    *)
(*            digits, then the end)                                        *)
(*   "date":  (pref)(date: 14 digits).*   used by getDatetime/setDatetime  *)
(*   "pref":  (pref).*                    used by getMediaType             *)
(* The result is the dictionary res: keys lists the entries it holds.      *)
(***************************************************************************)
ParseRes(e, ks, p, mt, ds, dt, sf) ==
  [err |-> e, keys |-> ks, pref |-> p, mediatype |-> mt,
   datestring |-> ds, datets |-> dt, suff |-> sf]

ParseFail(code) == ParseRes(code, {}, <<>>, None, <<>>, <<0, 0>>, <<>>)

Newline == "\n"

\* where $ matches: at the end of the string, and before a newline that is the
\* last character of the string.  This is s up to there.
BeforeLastNewline(s) ==
  IF s # <<>> /\ s[Len(s)] = Newline THEN SubSeq(s, 1, Len(s) - 1) ELSE s

\* re.match(parseExp, index): does the expression match, and with what groups
ReMatch(index, parseExp) ==
  LET n    == LetterRun(index)
      rest == SubSeq(index, n + 1, Len(index))
      dl   == INDEX_DATETIME_LENGTH
  IN  IF n = 0 THEN [ok |-> FALSE]
      ELSE IF parseExp = "pref"
           THEN [ok |-> TRUE, groups |-> {"pref"}, pref |-> SubSeq(index, 1, n),
                 date |-> <<>>, suff |-> <<>>]
      ELSE IF parseExp = "date"
           THEN IF Len(rest) >= dl /\ AllDigits(SubSeq(rest, 1, dl))
                THEN [ok |-> TRUE, groups |-> {"pref", "date"},
                      pref |-> SubSeq(index, 1, n), date |-> SubSeq(rest, 1, dl),
                      suff |-> <<>>]
                ELSE [ok |-> FALSE]
      ELSE IF Len(BeforeLastNewline(rest)) = dl + INDEX_SUFFIX_LENGTH
              /\ AllDigits(BeforeLastNewline(rest))
           THEN [ok |-> TRUE, groups |-> {"pref", "date", "suff"},
                 pref |-> SubSeq(index, 1, n), date |-> SubSeq(rest, 1, dl),
                 suff |-> SubSeq(rest, dl + 1, dl + INDEX_SUFFIX_LENGTH)]
           ELSE [ok |-> FALSE]

\* the media type whose registered prefix is p
MediaTypeOf(p) == CHOOSE k \in MediaTypes : INDEX_PREFIX[k] = p

parseIndex(z, index, parseExp, ignoreErrors) ==
  LET Dated(m, st) ==
        LET known  == m.pref \in PrefixValues
            hasD   == "date" \in m.groups
            dateOk == hasD /\ st.err = "none"
        IN  IF ~known /\ ~ignoreErrors THEN ParseFail("ParserError1")
            ELSE IF hasD /\ ~dateOk /\ ~ignoreErrors THEN ParseFail("ParserError2")
            ELSE ParseRes("none",
                   {"pref"} \cup (IF known THEN {"mediatype"} ELSE {})
                            \cup (IF hasD THEN {"datestring"} ELSE {})
                            \cup (IF dateOk THEN {"datets"} ELSE {})
                            \cup (IF "suff" \in m.groups THEN {"suff"} ELSE {}),
                   m.pref,
                   IF known THEN MediaTypeOf(m.pref) ELSE None,
                   m.date,
                   IF dateOk THEN <<Mktime(z, st.val), 0>> ELSE <<0, 0>>,
                   m.suff)
      Matched(m) ==
        IF ~m.ok THEN ParseFail("ParserError0")
        ELSE Dated(m, IF "date" \in m.groups THEN Strptime(m.date) ELSE Err("nodate"))
  IN  Matched(ReMatch(index, parseExp))

\* is name a valid index: indx.parseIndex(name) does not raise
IsIndex(z, name) == parseIndex(z, name, "index", FALSE).err = "none"

(***************************************************************************)
(* indexing.getPrefix, indexing.genIndex                                   *)
(***************************************************************************)
getPrefix(mediaType) ==
  IF mediaType \in MediaTypes THEN Ok(INDEX_PREFIX[mediaType]) ELSE Err("ValueError")

genIndex(z, prefix, timestamp, suffixNum) ==
  LET Parsed(indx, p) == IF p.err # "none" THEN Err(p.err) ELSE Ok(indx)
      Built(indx) == Parsed(indx, parseIndex(z, indx, "index", FALSE))
      Suffixed(suff) ==
        IF timestamp[1] < 0 /\ z.pre1970 = "OSError" THEN Err("ParserError1000")
        ELSE IF suff.err # "none" THEN Err("ParserError1000")
        ELSE Built(prefix \o Strftime(FromTimestamp(z, timestamp)) \o suff.val)
  IN  Suffixed(numberFormatToString(PyInt(suffixNum), INDEX_SUFFIX_LENGTH, FALSE))

(***************************************************************************)
(* The filesystem.  fs maps <<directory, name, extension>> of the files    *)
(* that exist to their content and timestamps.  The directories are fixed: *)
(* A (a source), B (a destination) and Bs, a subdirectory of B.            *)
(*                                                                         *)
(* A path string is <<directory, name, extension>> when it is spelled the  *)
(* way os.path.join(directory, name + extension) spells it.  A string that *)
(* names the same file in another spelling - on POSIX a doubled separator  *)
(* before the file name, "B//a.d"; with ntpath a forward slash there -     *)
(* has Respelled as a fourth element: the operating system reaches the     *)
(* same file through it, but it is not equal to the joined string.         *)
(***************************************************************************)
Respelled == "//"

\* the file a path string names
OnDisk(p) == <<p[1], p[2], p[3]>>

Dirs == {"A", "B", "Bs"}

\* an empty directory under Bs, which no call is given as a destination
Deep == "Bse"

\* os.listdir(d) restricted to directories
ChildDirs(d) ==
  CASE d = "B"  -> {"Bs"}
    [] d = "Bs" -> {Deep}
    [] OTHER    -> {}

\* the directories os.walk(d) visits: d first, then everything below it
Subtree(d) == {d} \cup ChildDirs(d) \cup UNION {ChildDirs(c) : c \in ChildDirs(d)}

NonePath == <<>>

PathDir(p)  == p[1]
PathName(p) == p[2]
PathExt(p)  == p[3]

\* byte size of each content; contents 1 and 2 differ but have one size,
\* content 4 is the empty file
SizeOf == <<2048, 2048, 123456, 0>>

Empty == Len(SizeOf)

Contents == 1..Len(SizeOf)

\* os.listdir(d) restricted to files
FilesIn(f, d) == {p \in DOMAIN f : PathDir(p) = d}

\* Directory.getFiles(recursive=True)
FilesUnder(f, d) == {p \in DOMAIN f : PathDir(p) \in Subtree(d)}

\* a function without / with one more point
Without(f, p) == [q \in DOMAIN f \ {p} |-> f[q]]
With(f, p, v) == [q \in DOMAIN f \cup {p} |-> IF q = p THEN v ELSE f[q]]

\* filecmp.cmp(p, q) with its default shallow=True: equal os.stat signatures
\* (size, mtime) are taken as equal files, otherwise the contents decide
FileCmp(f, p, q) ==
  \/ SizeOf[f[p].content] = SizeOf[f[q].content] /\ f[p].mtime = f[q].mtime
  \/ f[p].content = f[q].content

(***************************************************************************)
(* File handles.  A handle is its private path (NonePath when unlinked)    *)
(* and media type.  Each method below takes the filesystem and the handle  *)
(* and yields the new filesystem, the new handle, the exception raised     *)
(* ("none" when it returns) and the returned value.                        *)
(***************************************************************************)
Handle(p, mt) == [path |-> p, mt |-> mt]

\* None where a File object could be returned
NoFile == Handle(NonePath, None)

\* None where a timestamp could be passed
NoTime == <<>>

Res(f, h, e, r) == [fs |-> f, f |-> h, err |-> e, ret |-> r]

Raise(f, h, e) == Res(f, h, e, NoFile)

\* File.getName on a linked handle
getName(h) == PathName(h.path)

\* File.getMediaType
getMediaType(z, h) ==
  LET Parsed(p) ==
        IF p.err # "none" THEN Err(p.err)
        ELSE IF "mediatype" \in p.keys THEN Ok(p.mediatype) ELSE Ok(None)
  IN  IF h.mt # None THEN Ok(h.mt)
      ELSE Parsed(parseIndex(z, getName(h), "pref", TRUE))

\* File.setName
setName(f, h, name) ==
  IF h.path = NonePath THEN Raise(f, h, "TypeError")
  ELSE LET newFilePath == <<PathDir(h.path), name, PathExt(h.path)>>
       IN  IF newFilePath \in DOMAIN f THEN Raise(f, h, "FileExistsError")
           ELSE IF OnDisk(h.path) \notin DOMAIN f THEN Raise(f, h, "FileNotFoundError")
           ELSE Res(With(Without(f, OnDisk(h.path)), newFilePath, f[OnDisk(h.path)]),
                    Handle(newFilePath, h.mt), "none", NoFile)

\* File.setDatetime; timestamp = NoTime stands for the argument left out
setDatetime(z, f, h, timestamp, mode, fromIndex) ==
  LET Stamped(ts) ==
        IF mode \notin {"a", "m", "am"} THEN Raise(f, h, "ValueError")
        ELSE IF h.path = NonePath THEN Raise(f, h, "TypeError")
        ELSE IF OnDisk(h.path) \notin DOMAIN f THEN Raise(f, h, "FileNotFoundError")
        ELSE Res([f EXCEPT ![OnDisk(h.path)] =
                    [@ EXCEPT !.atime = IF mode \in {"a", "am"} THEN ts ELSE @,
                              !.mtime = IF mode \in {"m", "am"} THEN ts ELSE @]],
                 h, "none", NoFile)
      Parsed(p) ==
        IF p.err # "none" \/ "datets" \notin p.keys THEN Raise(f, h, "ValueError")
        ELSE Stamped(p.datets)
  IN  IF fromIndex
      THEN IF h.path = NonePath THEN Raise(f, h, "TypeError")
           ELSE Parsed(parseIndex(z, getName(h), "date", TRUE))
      ELSE IF timestamp = NoTime THEN Raise(f, h, "TypeError")
      ELSE Stamped(timestamp)

\* a mutation: an occupied index name is taken over instead of reported
setIndexOverwrite(z, f, h, force) ==
  LET Named(index) ==
        IF index.err # "none" THEN Raise(f, h, index.err)
        ELSE Res(With(Without(f, OnDisk(h.path)),
                      <<PathDir(h.path), index.val, PathExt(h.path)>>, f[OnDisk(h.path)]),
                 Handle(<<PathDir(h.path), index.val, PathExt(h.path)>>, h.mt),
                 "none", NoFile)
      Prefixed(pref) ==
        IF pref.err # "none" THEN Raise(f, h, "FileIndexingError")
        ELSE IF OnDisk(h.path) \notin DOMAIN f THEN Raise(f, h, "FileNotFoundError")
        ELSE Named(genIndex(z, pref.val, f[OnDisk(h.path)].mtime,
                            SizeOf[f[OnDisk(h.path)].content]))
      Typed(mt) ==
        IF mt.err # "none" THEN Raise(f, h, mt.err) ELSE Prefixed(getPrefix(mt.val))
  IN  IF h.path = NonePath THEN Raise(f, h, "TypeError")
      ELSE IF IsIndex(z, getName(h))
           THEN IF ~force THEN Raise(f, h, "FileIndexingError")
                ELSE setDatetime(z, f, h, NoTime, "am", TRUE)
      ELSE Typed(getMediaType(z, h))

\* a mutation: an indexed file is indexed again without force
setIndexAgain(z, f, h, force) ==
  LET Renamed(r) ==
        IF r.err = "FileExistsError" THEN Raise(f, h, "FileIndexingError") ELSE r
      Named(index) ==
        IF index.err # "none" THEN Raise(f, h, index.err)
        ELSE Renamed(setName(f, h, index.val))
      Prefixed(pref) ==
        IF pref.err # "none" THEN Raise(f, h, "FileIndexingError")
        ELSE IF OnDisk(h.path) \notin DOMAIN f THEN Raise(f, h, "FileNotFoundError")
        ELSE Named(genIndex(z, pref.val, f[OnDisk(h.path)].mtime,
                            SizeOf[f[OnDisk(h.path)].content]))
      Typed(mt) ==
        IF mt.err # "none" THEN Raise(f, h, mt.err) ELSE Prefixed(getPrefix(mt.val))
  IN  IF h.path = NonePath THEN Raise(f, h, "TypeError")
      ELSE IF IsIndex(z, getName(h)) /\ force
           THEN setDatetime(z, f, h, NoTime, "am", TRUE)
      ELSE Typed(getMediaType(z, h))

\* a mutation: the index is dated with the access time of the file
setIndexFromAtime(z, f, h, force) ==
  LET Renamed(r) ==
        IF r.err = "FileExistsError" THEN Raise(f, h, "FileIndexingError") ELSE r
      Named(index) ==
        IF index.err # "none" THEN Raise(f, h, index.err)
        ELSE Renamed(setName(f, h, index.val))
      Prefixed(pref) ==
        IF pref.err # "none" THEN Raise(f, h, "FileIndexingError")
        ELSE IF OnDisk(h.path) \notin DOMAIN f THEN Raise(f, h, "FileNotFoundError")
        ELSE Named(genIndex(z, pref.val, f[OnDisk(h.path)].atime,
                            SizeOf[f[OnDisk(h.path)].content]))
      Typed(mt) ==
        IF mt.err # "none" THEN Raise(f, h, mt.err) ELSE Prefixed(getPrefix(mt.val))
  IN  IF h.path = NonePath THEN Raise(f, h, "TypeError")
      ELSE IF IsIndex(z, getName(h))
           THEN IF ~force THEN Raise(f, h, "FileIndexingError")
                ELSE setDatetime(z, f, h, NoTime, "am", TRUE)
      ELSE Typed(getMediaType(z, h))

\* File.setIndex
setIndex(z, f, h, force) ==
  LET Renamed(r) ==
        IF r.err = "FileExistsError" THEN Raise(f, h, "FileIndexingError") ELSE r
      Named(index) ==
        IF index.err # "none" THEN Raise(f, h, index.err)
        ELSE Renamed(setName(f, h, index.val))
      Prefixed(pref) ==
        IF pref.err # "none" THEN Raise(f, h, "FileIndexingError")
        ELSE IF OnDisk(h.path) \notin DOMAIN f THEN Raise(f, h, "FileNotFoundError")
        ELSE Named(genIndex(z, pref.val, f[OnDisk(h.path)].mtime,
                            SizeOf[f[OnDisk(h.path)].content]))
      Typed(mt) ==
        IF mt.err # "none" THEN Raise(f, h, mt.err) ELSE Prefixed(getPrefix(mt.val))
  IN  IF h.path = NonePath THEN Raise(f, h, "TypeError")
      ELSE IF IsIndex(z, getName(h))
           THEN IF ~force THEN Raise(f, h, "FileIndexingError")
                ELSE setDatetime(z, f, h, NoTime, "am", TRUE)
      ELSE Typed(getMediaType(z, h))

\* a mutation: the scan looks for the destination path only
CollidesPathOnly(f, h, destPath, strict) ==
  \E q \in FilesIn(f, PathDir(destPath)) : destPath = q

\* the scan copyTo and moveTo make of the destination directory: is there a
\* file there that compares equal to the source (strict) or whose joined path
\* is the string destPath
Collides(f, h, destPath, strict) ==
  \E q \in FilesIn(f, PathDir(destPath)) :
     (strict /\ FileCmp(f, OnDisk(h.path), q)) \/ destPath = q

\* File.copyTo; now is the clock reading a copy made without preserveDate
\* gets.  open(destPath, 'wb') truncates a file that is there; when that file
\* is the source itself, nothing is left to copy.
copyTo(f, h, destPath, preserveDate, strict, now) ==
  IF h.path = NonePath THEN Raise(f, h, "TypeError")
  ELSE IF OnDisk(h.path) \notin DOMAIN f THEN Raise(f, h, "FileNotFoundError")
  ELSE IF Collides(f, h, destPath, strict) THEN Raise(f, h, "FileExistsError")
  ELSE IF OnDisk(destPath) = OnDisk(h.path)
       THEN Res(With(f, OnDisk(destPath), [content |-> Empty, mtime |-> now, atime |-> now]),
                h, "none", Handle(destPath, h.mt))
  ELSE Res(With(f, OnDisk(destPath),
                [content |-> f[OnDisk(h.path)].content,
                 mtime   |-> IF preserveDate THEN f[OnDisk(h.path)].mtime ELSE now,
                 atime   |-> IF preserveDate THEN f[OnDisk(h.path)].atime ELSE now]),
           h, "none", Handle(destPath, h.mt))

\* File.moveTo; shutil.move replaces a file that is at the destination
moveTo(f, h, destPath, strict) ==
  IF h.path = NonePath THEN Raise(f, h, "TypeError")
  ELSE IF OnDisk(h.path) \notin DOMAIN f THEN Raise(f, h, "FileNotFoundError")
  ELSE IF Collides(f, h, destPath, strict) THEN Raise(f, h, "FileExistsError")
  ELSE Res(With(Without(f, OnDisk(h.path)), OnDisk(destPath), f[OnDisk(h.path)]),
           Handle(destPath, h.mt), "none", NoFile)

\* a mutation: the file is removed and the object stays linked to its path
deleteKeepsPath(f, h) ==
  IF h.path = NonePath \/ OnDisk(h.path) \notin DOMAIN f THEN Raise(f, h, "FileNotFoundError")
  ELSE Res(Without(f, OnDisk(h.path)), h, "none", NoFile)

\* File.delete
delete(f, h) ==
  IF h.path = NonePath \/ OnDisk(h.path) \notin DOMAIN f THEN Raise(f, h, "FileNotFoundError")
  ELSE Res(Without(f, OnDisk(h.path)), Handle(NonePath, h.mt), "none", NoFile)

(***************************************************************************)
(* fdmgm.importFile with organizeBy=None: the destination directory is     *)
(* dstRootPath itself.                                                     *)
(***************************************************************************)
\* a mutation: in copy mode the index is set on the source, not on the copy
importFileIndexSource(z, f, h, dstDir, copy, indexing) ==
  LET dest == <<dstDir, getName(h), PathExt(h.path)>>
      SourceIndexed(c, i) ==
        IF i.err = "none" THEN Res(i.fs, i.f, "none", c.ret)
        ELSE Raise(i.fs, h, "FileImportingError")
      Copied(c) ==
        IF c.err = "FileExistsError" THEN Raise(f, h, "FileImportingError")
        ELSE IF c.err # "none" THEN Raise(f, h, c.err)
        ELSE IF ~indexing THEN Res(c.fs, h, "none", c.ret)
        ELSE SourceIndexed(c, setIndex(z, c.fs, h, FALSE))
      Moved(m) ==
        IF m.err = "FileExistsError" THEN Raise(f, h, "FileImportingError")
        ELSE IF m.err # "none" THEN Raise(f, h, m.err)
        ELSE Res(m.fs, m.f, "none", m.f)
  IN  IF h.path = NonePath THEN Raise(f, h, "TypeError")
      ELSE IF copy THEN Copied(copyTo(f, h, dest, TRUE, TRUE, <<0, 0>>))
      ELSE Moved(moveTo(f, h, dest, TRUE))

importFile(z, f, h, dstDir, copy, indexing) ==
  LET dest == <<dstDir, getName(h), PathExt(h.path)>>
      \* copy mode: srcFile stays as it is, the copy is dstFile
      Deleted(d) ==
        IF d.err # "none" THEN Raise(d.fs, h, d.err)
        ELSE Raise(d.fs, h, "FileImportingError")
      CopyIndexed(i) ==
        IF i.err = "none" THEN Res(i.fs, h, "none", i.f)
        ELSE IF i.err = "FileIndexingError" THEN Deleted(delete(i.fs, i.f))
        ELSE Raise(i.fs, h, i.err)
      Copied(c) ==
        IF c.err = "FileExistsError" THEN Raise(f, h, "FileImportingError")
        ELSE IF c.err # "none" THEN Raise(f, h, c.err)
        ELSE IF ~indexing THEN Res(c.fs, h, "none", c.ret)
        ELSE CopyIndexed(setIndex(z, c.fs, c.ret, FALSE))
      \* move mode: srcFile itself is dstFile
      MovedBack(b) ==
        IF b.err # "none" THEN Raise(b.fs, b.f, b.err)
        ELSE Raise(b.fs, b.f, "FileImportingError")
      MoveIndexed(i) ==
        IF i.err = "none" THEN Res(i.fs, i.f, "none", i.f)
        ELSE IF i.err = "FileIndexingError" THEN MovedBack(moveTo(i.fs, i.f, h.path, TRUE))
        ELSE Raise(i.fs, i.f, i.err)
      Moved(m) ==
        IF m.err = "FileExistsError" THEN Raise(f, h, "FileImportingError")
        ELSE IF m.err # "none" THEN Raise(f, h, m.err)
        ELSE IF ~indexing THEN Res(m.fs, m.f, "none", m.f)
        ELSE MoveIndexed(setIndex(z, m.fs, m.f, FALSE))
  IN  IF h.path = NonePath THEN Raise(f, h, "TypeError")
      ELSE IF copy THEN Copied(copyTo(f, h, dest, TRUE, TRUE, <<0, 0>>))
      ELSE Moved(moveTo(f, h, dest, TRUE))

(***************************************************************************)
(* importFile when a KeyboardInterrupt or SystemExit (intr) arrives inside *)
(* its try block.  at is where the call is when it arrives:                *)
(*   "scan"     nothing is copied or moved yet (the destination path is    *)
(*              being built, or copyTo / moveTo scans the destination)     *)
(*   "copy"     copyTo has opened the destination file and is writing it   *)
(*   "done"     copyTo / moveTo has returned; setIndex has not renamed     *)
(*   "indexed"  setIndex has renamed the file                              *)
(* A call that ends before it gets that far is not interrupted: Unreached. *)
(* now is the clock reading the unfinished copy is stamped with.           *)
(***************************************************************************)
InterruptPoints == {"scan", "copy", "done", "indexed"}

Unreached == "unreached"

importFileInterrupted(z, f, h, dstDir, copy, indexing, at, intr, now) ==
  LET dest == <<dstDir, getName(h), PathExt(h.path)>>
      \* copy mode: File(rollbackPath).delete(), then raise
      Deleted(g) ==
        IF dest \in DOMAIN g THEN Raise(Without(g, dest), h, intr)
        ELSE Raise(g, h, "FileNotFoundError")
      \* move mode: srcFile.moveTo(oldPath), then raise
      MovedBack(b) ==
        IF b.err # "none" THEN Raise(b.fs, b.f, b.err)
        ELSE Raise(b.fs, b.f, intr)
      \* the handler, entered with the files g and srcFile as it is in cur
      Handler(g, cur) ==
        IF copy THEN Deleted(g) ELSE MovedBack(moveTo(g, cur, h.path, TRUE))
      Indexed(i) ==
        IF i.err # "none" THEN Raise(f, h, Unreached) ELSE Handler(i.fs, i.f)
      Transferred(t) ==
        IF t.err # "none" THEN Raise(f, h, Unreached)
        ELSE IF at = "copy"
             THEN Handler(With(f, dest, [content |-> Empty, mtime |-> now, atime |-> now]), h)
        ELSE IF at = "done" THEN Handler(t.fs, t.f)
        ELSE IF ~indexing THEN Raise(f, h, Unreached)
        ELSE Indexed(setIndex(z, t.fs, IF copy THEN t.ret ELSE t.f, FALSE))
  IN  IF h.path = NonePath \/ at \notin InterruptPoints \/ (at = "copy" /\ ~copy)
      THEN Raise(f, h, Unreached)
      ELSE IF at = "scan" THEN Handler(f, h)
      ELSE Transferred(IF copy THEN copyTo(f, h, dest, TRUE, TRUE, <<0, 0>>)
                       ELSE moveTo(f, h, dest, TRUE))

(***************************************************************************)
(* Directory.checkIntegrity, one file of the loop at a time.  The loop     *)
(* runs over the handles getFiles() made when the scan began, in the order *)
(* os.walk gave them.  The recursive call, made after a repair, either     *)
(* returns True, and then the caller returns True, or raises, and the      *)
(* exception passes through the caller: the scan starts again from a fresh *)
(* listing with an empty issue list, one level deeper.                     *)
(***************************************************************************)
NoScan ==
  [dir |-> None, mt |-> None, fix |-> FALSE, todo |-> {}, issues |-> <<>>,
   depth |-> 0, result |-> "idle"]

\* File.getDatetime(fromIndex=name) on a name that is a valid index
IndexDatetime(z, name) == parseIndex(z, name, "date", TRUE).datets

\* a mutation: a wrong datetime is not looked for
VisitNoDate(z, f, p, mt, fix) ==
  IF IsIndex(z, PathName(p)) THEN [kind |-> "pass", fs |-> f, note |-> None]
  ELSE [kind |-> "issue", fs |-> f, note |-> "Invalid index"]

\* a mutation: a file with a wrong datetime is scanned again as it is
VisitRescanUnrepaired(z, f, p, mt, fix) ==
  IF IsIndex(z, PathName(p))
  THEN IF f[p].mtime = IndexDatetime(z, PathName(p))
       THEN [kind |-> "pass", fs |-> f, note |-> None]
       ELSE IF ~fix THEN [kind |-> "issue", fs |-> f, note |-> "Wrong datetime"]
       ELSE [kind |-> "rescan", fs |-> f, note |-> None]
  ELSE [kind |-> "issue", fs |-> f, note |-> IF fix THEN "Index not set" ELSE "Invalid index"]

\* the outcome of the loop body on the file at p:
\*   "pass"     the file is sound
\*   "issue"    an issue is appended to the list
\*   "rescan"   a repair was made and checkIntegrity(fix=True) is called again
\*   "escape"   an exception that no handler of the loop catches
Visit(z, f, p, mt, fix) ==
  LET h == Handle(p, mt)
      Redated(r) ==
        IF r.err = "none" THEN [kind |-> "rescan", fs |-> r.fs, note |-> None]
        ELSE IF r.err = "ValueError"
             THEN [kind |-> "issue", fs |-> r.fs, note |-> "Index not set"]
        ELSE [kind |-> "escape", fs |-> r.fs, note |-> r.err]
      Dated(r1) ==
        IF r1.err = "ValueError"
        THEN [kind |-> "issue", fs |-> r1.fs, note |-> "Index not set"]
        ELSE IF r1.err # "none" THEN [kind |-> "escape", fs |-> r1.fs, note |-> r1.err]
        ELSE Redated(setIndex(z, r1.fs, r1.f, FALSE))
  IN  IF IsIndex(z, PathName(p))
      THEN IF f[p].mtime = IndexDatetime(z, PathName(p))
           THEN [kind |-> "pass", fs |-> f, note |-> None]
           ELSE IF ~fix THEN [kind |-> "issue", fs |-> f, note |-> "Wrong datetime"]
           ELSE Redated(setDatetime(z, f, h, NoTime, "am", TRUE))
      ELSE IF ~fix THEN [kind |-> "issue", fs |-> f, note |-> "Invalid index"]
      ELSE Dated(setDatetime(z, f, h, NoTime, "am", TRUE))

(***************************************************************************)
(* Initial states: a filesystem the package is started on and the File     *)
(* objects made for two of its files.                                      *)
(***************************************************************************)
\* 2015-12-20 12:00:00 UTC, as seconds since the epoch
T0 == 16789 * 86400 + 12 * 3600

Ext == ".d"

PlainA == <<"a">>
PlainB == <<"b">>
PlainC == <<"c">>
DigitName == <<"7">>

Stamp(z, sec) == Strftime(FromTimestamp(z, <<sec, 0>>))

\* the name setIndex gives a file of media type mt, mtime ts and content c
IndexFor(z, mt, ts, c) == genIndex(z, INDEX_PREFIX[mt], ts, SizeOf[c]).val

NameKinds == {"plain", "digit", "index", "dateonly"}
TwinKinds == {"same", "twin", "other"}
Layouts   == {"empty", "occupied", "mixed", "fixable"}

File(c, mt, at) == [content |-> c, mtime |-> mt, atime |-> at]

\* the name of the first file of A
NameA(z, nameKind) ==
  CASE nameKind = "plain"    -> PlainA
    [] nameKind = "digit"    -> DigitName
    [] nameKind = "index"    -> INDEX_PREFIX.footage \o Stamp(z, T0) \o <<"1","2","3","4","5">>
    [] nameKind = "dateonly" -> INDEX_PREFIX.audio \o Stamp(z, T0) \o <<"1","2">>

\* the files of B and Bs, and in the layout "occupied" one more file of A, put
\* where setIndex would rename the first file of A, and a file of B with the
\* name of the second file of A; mA is the mtime of the first file of A
LayoutFiles(z, layout, mA) ==
  LET Sound1(ix) == <<"B", ix, Ext>> :> File(2, IndexDatetime(z, ix), <<T0, 0>>)
  IN  CASE layout = "empty" -> <<>>
        [] layout = "occupied" ->
             (<<"A", IndexFor(z, "footage", mA, 1), Ext>> :> File(3, <<T0, 0>>, <<T0, 0>>)) @@
             (<<"B", IndexFor(z, "footage", mA, 1), Ext>> :> File(3, <<T0, 0>>, <<T0, 0>>)) @@
             (<<"B", PlainB, Ext>> :> File(3, <<T0 + 240, 0>>, <<T0, 0>>)) @@
             (<<"Bs", PlainC, Ext>> :> File(2, <<T0, 0>>, <<T0, 0>>))
        [] layout = "mixed" ->
             Sound1(IndexFor(z, "footage", <<T0 + 3600, 0>>, 1)) @@
             (<<"B", INDEX_PREFIX.footage \o Stamp(z, T0 + 3600) \o <<"9">>, Ext>> :>
                 File(1, <<T0, 0>>, <<T0, 0>>)) @@
             (<<"Bs", INDEX_PREFIX.ctraps \o Stamp(z, T0) \o <<"0","0","0","0","7">>, Ext>> :>
                 File(3, <<T0 + 60, 0>>, <<T0, 0>>))
        [] layout = "fixable" ->
             (<<"B", INDEX_PREFIX.footage \o Stamp(z, T0 + 7200) \o <<"9">>, Ext>> :>
                 File(1, <<T0, 0>>, <<T0, 0>>)) @@
             (<<"Bs", INDEX_PREFIX.ctraps \o Stamp(z, T0) \o <<"0","0","0","0","7">>, Ext>> :>
                 File(3, <<T0 + 60, 0>>, <<T0, 0>>))

InitialFiles(z, nameKind, twinKind, layout) ==
  LET mA    == IF nameKind \in {"index", "dateonly"} THEN <<T0 + 60, 5>> ELSE <<T0, 0>>
      fileB == CASE twinKind = "same"  -> File(1, <<T0 + 120, 0>>, <<T0, 0>>)
                 [] twinKind = "twin"  -> File(2, mA, <<T0, 0>>)
                 [] twinKind = "other" -> File(3, <<T0, 5>>, <<T0, 0>>)
      Placed(nameA) ==
        [fsys  |-> (<<"A", nameA, Ext>> :> File(1, mA, <<T0, 0>>)) @@
                   (<<"A", PlainB, Ext>> :> fileB) @@ LayoutFiles(z, layout, mA),
         pathA |-> <<"A", nameA, Ext>>,
         pathB |-> <<"A", PlainB, Ext>>]
  IN  Placed(NameA(z, nameKind))

NoCall == [op |-> "none"]

NoCodec == [op |-> "none"]

HandleTypes == {None, "footage", "bogus"}

Init ==
  /\ tz \in Zones
  /\ \E nameKind \in NameKinds, twinKind \in TwinKinds, layout \in Layouts, mt1 \in HandleTypes :
        \E w \in {InitialFiles(tz, nameKind, twinKind, layout)} :
            /\ fs = w.fsys
            /\ hs = (1 :> Handle(w.pathA, mt1)) @@ (2 :> Handle(w.pathB, "footage"))
  /\ last = NoCall
  /\ scan = NoScan
  /\ calls = 1
  /\ codec = NoCodec
  /\ outside = FALSE

(***************************************************************************)
(* The calls.  Spec lets the caller make one call, of any method with any  *)
(* of the arguments below, from every initial state.                       *)
(***************************************************************************)
MaxHandles == 3

\* the caller keeps a returned File object while it has room for one
Keep(pool, ret, fresh) ==
  IF fresh /\ ret # NoFile /\ Cardinality(DOMAIN pool) < MaxHandles
  THEN pool @@ ((Cardinality(DOMAIN pool) + 1) :> ret)
  ELSE pool

Idle == calls > 0 /\ scan.result # "running"

Call(op, h, args, r, fresh) ==
  /\ Idle
  /\ fs' = r.fs
  /\ hs' = Keep([hs EXCEPT ![h] = r.f], r.ret, fresh)
  /\ last' = [op |-> op, h |-> h, args |-> args, err |-> r.err, ret |-> r.ret,
              fs0 |-> fs, hs0 |-> hs]
  /\ calls' = calls - 1
  /\ UNCHANGED <<tz, scan, codec, outside>>

\* File.setMediaType
setMediaType(f, h, mediaType) ==
  IF mediaType \notin MediaTypes /\ mediaType # None THEN Raise(f, h, "ValueError")
  ELSE Res(f, Handle(h.path, mediaType), "none", NoFile)

\* File.unlink
unlink(f, h) == Res(f, Handle(NonePath, h.mt), "none", NoFile)

\* the clock reading a copy made without preserveDate is stamped with
Now == <<T0 + 86400, 0>>

NameArgs == {PlainC} \cup {PathName(p) : p \in DOMAIN fs}

\* the joined path strings a call is given as destination
JoinedArgs(h) ==
  DOMAIN fs \cup
  (IF hs[h].path = NonePath THEN {}
   ELSE {<<d, n, PathExt(hs[h].path)>> : d \in Dirs, n \in {PlainC, getName(hs[h])}})

\* and the same paths in the other spelling
PathArgs(h) == JoinedArgs(h) \cup {p \o <<Respelled>> : p \in JoinedArgs(h)}

SetMediaType(h, mediaType) ==
  Call("setMediaType", h, [mediaType |-> mediaType], setMediaType(fs, hs[h], mediaType), FALSE)

SetName(h, name) ==
  Call("setName", h, [name |-> name], setName(fs, hs[h], name), FALSE)

SetIndex(h, force) ==
  Call("setIndex", h, [force |-> force], setIndex(tz, fs, hs[h], force), FALSE)

SetDatetime(h, timestamp, mode, fromIndex) ==
  Call("setDatetime", h, [timestamp |-> timestamp, mode |-> mode, fromIndex |-> fromIndex],
       setDatetime(tz, fs, hs[h], timestamp, mode, fromIndex), FALSE)

Unlink(h) == Call("unlink", h, [none |-> None], unlink(fs, hs[h]), FALSE)

CopyTo(h, destPath, preserveDate, strict) ==
  Call("copyTo", h, [destPath |-> destPath, preserveDate |-> preserveDate, strict |-> strict],
       copyTo(fs, hs[h], destPath, preserveDate, strict, Now), TRUE)

MoveTo(h, destPath, strict) ==
  Call("moveTo", h, [destPath |-> destPath, strict |-> strict],
       moveTo(fs, hs[h], destPath, strict), FALSE)

Delete(h) == Call("delete", h, [none |-> None], delete(fs, hs[h]), FALSE)

ImportFile(h, dstRootPath, copy, indexing) ==
  Call("importFile", h, [dstRootPath |-> dstRootPath, copy |-> copy, indexing |-> indexing],
       importFile(tz, fs, hs[h], dstRootPath, copy, indexing), copy)

\* importFile, interrupted
ImportFileInterrupted(h, dstRootPath, copy, indexing, at, intr) ==
  /\ Idle
  /\ \E r \in {importFileInterrupted(tz, fs, hs[h], dstRootPath, copy, indexing, at, intr, Now)} :
     /\ r.err # Unreached
     /\ Call("importFileInterrupted", h,
             [dstRootPath |-> dstRootPath, copy |-> copy, indexing |-> indexing,
              at |-> at, intr |-> intr],
             r, FALSE)

(***************************************************************************)
(* Reads of a File object.                                                 *)
(***************************************************************************)
\* File.exists
exists(f, h) == h.path # NonePath /\ OnDisk(h.path) \in DOMAIN f

\* File.getPath: the stored path, None after unlink
getPath(h) == Ok(h.path)

\* File.getExt; os.path.splitext(None) raises TypeError
getExt(h) == IF h.path = NonePath THEN Err("TypeError") ELSE Ok(PathExt(h.path))

\* File.getDir; os.path.dirname(None) raises TypeError
getDir(h) == IF h.path = NonePath THEN Err("TypeError") ELSE Ok(PathDir(h.path))

FileReads == {"getPath", "getName", "getExt", "getDir", "exists"}

Read(f, h, method) ==
  CASE method = "getPath" -> getPath(h)
    [] method = "getName" -> IF h.path = NonePath THEN Err("TypeError") ELSE Ok(getName(h))
    [] method = "getExt"  -> getExt(h)
    [] method = "getDir"  -> getDir(h)
    [] method = "exists"  -> Ok(exists(f, h))

\* file.<method>()
Get(h, method) ==
  /\ Idle
  /\ \E r \in {Read(fs, hs[h], method)} :
        Call(method, h, [none |-> None], Res(fs, hs[h], r.err, r.val), FALSE)

(***************************************************************************)
(* Directory objects.  A Directory is its private path (None when          *)
(* unlinked) and media type; the caller makes one when it needs it.        *)
(***************************************************************************)
Directory(dirPath, mediaType) == [path |-> dirPath, mt |-> mediaType]

\* a directory that was removed after a Directory object was made for it
Gone == "G"

\* Directory.exists
dirExists(d) == d.path \in Dirs \cup {Deep}

RECURSIVE TotalSize(_, _)
TotalSize(f, S) ==
  IF S = {} THEN 0
  ELSE LET p == CHOOSE q \in S : TRUE
       IN  SizeOf[f[p].content] + TotalSize(f, S \ {p})

\* Directory.getSize
getSize(f, d, recursive) ==
  IF ~dirExists(d) THEN Err("NotADirectoryError")
  ELSE Ok(TotalSize(f, IF recursive THEN FilesUnder(f, d.path) ELSE FilesIn(f, d.path)))

\* a mutation: the recursive listing keeps the root that os.walk starts with
getDirsWithRoot(d, recursive) ==
  IF ~dirExists(d) THEN Err("NotADirectoryError")
  ELSE Ok({Directory(c, d.mt) : c \in IF recursive THEN Subtree(d.path)
                                                   ELSE ChildDirs(d.path)})

\* Directory.getDirs; the list is modelled by the set of its elements
getDirs(d, recursive) ==
  IF ~dirExists(d) THEN Err("NotADirectoryError")
  ELSE Ok({Directory(c, d.mt) : c \in IF recursive THEN Subtree(d.path) \ {d.path}
                                                   ELSE ChildDirs(d.path)})

\* Directory.getFiles; the list is modelled by the set of its elements
getFiles(f, d, recursive) ==
  IF ~dirExists(d) THEN Err("NotADirectoryError")
  ELSE Ok({Handle(p, d.mt) : p \in IF recursive THEN FilesUnder(f, d.path)
                                                ELSE FilesIn(f, d.path)})

DirectoryMethods == {"getPath", "getName", "getDir", "getSize", "getDirs", "getFiles"}

\* Directory has getPath and getName (os.path.basename(None) raises
\* TypeError) and no getDir
DirectoryRead(f, d, method, recursive) ==
  CASE method = "getPath"  -> Ok(d.path)
    [] method = "getName"  -> IF d.path = None THEN Err("TypeError") ELSE Ok(d.path)
    [] method = "getDir"   -> Err("AttributeError")
    [] method = "getSize"  -> getSize(f, d, recursive)
    [] method = "getDirs"  -> getDirs(d, recursive)
    [] method = "getFiles" -> getFiles(f, d, recursive)

\* the Directory objects the caller may hold: linked to a directory that
\* exists, to one that was removed since, or unlinked
DirectoryArgs ==
  {Directory(p, mt) : p \in {"A", "B", "Bs", Deep, Gone, None}, mt \in {None, "footage"}}

\* the values of recursive a method is called with
RecursiveArgs(method) ==
  IF method \in {"getSize", "getDirs", "getFiles"} THEN BOOLEAN ELSE {TRUE}

\* directory.<method>(recursive)
DirectoryCall(d, method, recursive) ==
  /\ Idle
  /\ \E r \in {DirectoryRead(fs, d, method, recursive)} :
        last' = [op |-> "Directory." \o method, dir |-> d,
                 args |-> [recursive |-> recursive], err |-> r.err, ret |-> r.val,
                 fs0 |-> fs, hs0 |-> hs]
  /\ calls' = calls - 1
  /\ UNCHANGED <<tz, fs, hs, scan, codec, outside>>

\* Directory(dir, mediaType).checkIntegrity(fix) is entered
CheckIntegrityStart(dir, mediaType, fix) ==
  /\ Idle
  /\ scan' = [dir |-> dir, mt |-> mediaType, fix |-> fix, todo |-> FilesUnder(fs, dir),
              issues |-> <<>>, depth |-> 1, result |-> "running"]
  /\ last' = [op |-> "checkIntegrity", fs0 |-> fs, hs0 |-> hs]
  /\ calls' = calls - 1
  /\ UNCHANGED <<tz, fs, hs, codec, outside>>

\* one turn of its loop, on the next file of the listing
CheckIntegrityVisit ==
  /\ scan.result = "running"
  /\ \E p \in scan.todo :
        \E v \in {Visit(tz, fs, p, scan.mt, scan.fix)} :
            /\ fs' = v.fs
            /\ scan' =
                 CASE v.kind = "pass"   -> [scan EXCEPT !.todo = @ \ {p}]
                   [] v.kind = "issue"  -> [scan EXCEPT !.todo = @ \ {p},
                                                        !.issues = Append(@, <<p, v.note>>)]
                   [] v.kind = "rescan" -> [scan EXCEPT !.todo = FilesUnder(v.fs, scan.dir),
                                                        !.issues = <<>>,
                                                        !.depth = @ + 1]
                   [] v.kind = "escape" -> [scan EXCEPT !.todo = {}, !.result = v.note]
  /\ UNCHANGED <<tz, hs, last, calls, codec, outside>>

\* the loop is over: return True or raise DirectoryIntegrityError(issues)
CheckIntegrityEnd ==
  /\ scan.result = "running"
  /\ scan.todo = {}
  /\ scan' = [scan EXCEPT !.result = IF scan.issues = <<>> THEN "True"
                                      ELSE "DirectoryIntegrityError"]
  /\ UNCHANGED <<tz, fs, hs, last, calls, codec, outside>>

Next ==
  \/ \E h \in DOMAIN hs, mediaType \in {None, "audio", "bogus"} : SetMediaType(h, mediaType)
  \/ \E h \in DOMAIN hs, name \in NameArgs : SetName(h, name)
  \/ \E h \in DOMAIN hs, force \in BOOLEAN : SetIndex(h, force)
  \/ \E h \in DOMAIN hs, timestamp \in {NoTime, <<T0 + 30, 0>>}, mode \in {"a", "m", "am", "x"},
        fromIndex \in BOOLEAN : SetDatetime(h, timestamp, mode, fromIndex)
  \/ \E h \in DOMAIN hs : Unlink(h)
  \/ \E h \in DOMAIN hs : \E destPath \in PathArgs(h), preserveDate \in BOOLEAN, strict \in BOOLEAN :
        CopyTo(h, destPath, preserveDate, strict)
  \/ \E h \in DOMAIN hs : \E destPath \in PathArgs(h), strict \in BOOLEAN :
        MoveTo(h, destPath, strict)
  \/ \E h \in DOMAIN hs : Delete(h)
  \/ \E h \in DOMAIN hs, dstRootPath \in {"A", "B"}, copy \in BOOLEAN, indexing \in BOOLEAN :
        ImportFile(h, dstRootPath, copy, indexing)
  \/ \E h \in DOMAIN hs, dstRootPath \in {"A", "B"}, copy \in BOOLEAN, indexing \in BOOLEAN,
        at \in InterruptPoints, intr \in {"KeyboardInterrupt", "SystemExit"} :
        ImportFileInterrupted(h, dstRootPath, copy, indexing, at, intr)
  \/ \E dir \in {"A", "B"}, mediaType \in {None, "footage"}, fix \in BOOLEAN :
        CheckIntegrityStart(dir, mediaType, fix)
  \/ CheckIntegrityVisit
  \/ CheckIntegrityEnd
  \/ \E d \in DirectoryArgs, method \in DirectoryMethods :
        \E recursive \in RecursiveArgs(method) : DirectoryCall(d, method, recursive)

Spec == Init /\ [][Next]_vars

(***************************************************************************)
(* SpecCodec: the indexing functions on their own, one call on inputs      *)
(* drawn from bounded sets.                                                *)
(***************************************************************************)
\* the half hours on either side of the end of daylight saving that the
\* timestamps are drawn from
MaxHalfHours == 3

TimeArgs ==
  {ZoneBRT("dst").dstTo + k * 1800 : k \in (0 - MaxHalfHours)..MaxHalfHours} \cup
  {0, 59, T0, 1456790399, -2, -5400}

SeedArgs == {0, 7, 2048, 99999, 100000, 123456, -2}

\* the machines the indexing functions run on: the zones, on a platform of
\* either kind
Machines == Zones \cup {[z EXCEPT !.pre1970 = "OSError"] : z \in Zones}

InitCodec ==
  /\ tz \in Machines
  /\ fs = <<>>
  /\ hs = <<>>
  /\ last = NoCall
  /\ scan = NoScan
  /\ calls = 0
  /\ codec = NoCodec
  /\ outside = FALSE

\* index = genIndex(prefix, timestamp, suffixNum), then parseIndex(index)
GenThenParse(prefix, timestamp, suffixNum) ==
  /\ codec = NoCodec
  /\ \E g \in {genIndex(tz, prefix, <<timestamp, 0>>, suffixNum)} :
        codec' = [op |-> "genparse", prefix |-> prefix, timestamp |-> timestamp,
                  suffixNum |-> suffixNum, index |-> g,
                  parsed |-> IF g.err = "none" THEN parseIndex(tz, g.val, "index", FALSE)
                             ELSE ParseFail(g.err)]
  /\ UNCHANGED <<tz, fs, hs, last, scan, calls, outside>>

\* the strings parseIndex is given: a prefix part, a date part and a suffix
\* part, each sound or unsound in one of several ways
PrefixParts ==
  PrefixValues \cup
  {<<>>, <<"m","v","d","c">>, <<"M","C","C","V">>, <<"M","V","D","C","X">>, <<"_">>}

WallClocks ==
  {[Y |-> 2010, M |-> 8,  D |-> 2,  h |-> 13, m |-> 44, s |-> 54],
   [Y |-> 2010, M |-> 13, D |-> 2,  h |-> 13, m |-> 44, s |-> 54],
   [Y |-> 2011, M |-> 2,  D |-> 29, h |-> 13, m |-> 44, s |-> 54],
   [Y |-> 2012, M |-> 2,  D |-> 29, h |-> 13, m |-> 44, s |-> 54],
   [Y |-> 2010, M |-> 8,  D |-> 0,  h |-> 13, m |-> 44, s |-> 54],
   [Y |-> 2010, M |-> 8,  D |-> 2,  h |-> 24, m |-> 0,  s |-> 0],
   [Y |-> 2010, M |-> 8,  D |-> 2,  h |-> 13, m |-> 60, s |-> 0],
   [Y |-> 2010, M |-> 8,  D |-> 2,  h |-> 13, m |-> 44, s |-> 61],
   [Y |-> 2010, M |-> 8,  D |-> 2,  h |-> 13, m |-> 44, s |-> 62],
   [Y |-> 0,    M |-> 8,  D |-> 2,  h |-> 13, m |-> 44, s |-> 54],
   [Y |-> 2016, M |-> 2,  D |-> 20, h |-> 23, m |-> 30, s |-> 0]}

DateParts ==
  {Strftime(lt) : lt \in WallClocks} \cup
  {<<>>,
   SubSeq(Strftime(CHOOSE lt \in WallClocks : lt.Y = 2012), 1, INDEX_DATETIME_LENGTH - 1),
   Strftime(CHOOSE lt \in WallClocks : lt.Y = 2012) \o <<"4">>}

SuffixParts ==
  {<<"1","2","3","4","5">>, <<"1","2","3","4">>, <<"1","2","3","4","5","6">>, <<>>,
   <<"M","V","1","2","3","4","5">>, <<"1","2","3","4","x">>,
   <<"1","2","3","4","5",Newline>>, <<"1","2","3","4","5",Newline,Newline>>,
   <<"1","2","3","4","5"," ">>, <<"1","2","3","4",Newline>>}

\* parseIndex(index, parseExp, ignoreErrors=ignoreErrors)
ParseIndex(index, parseExp, ignoreErrors) ==
  /\ codec = NoCodec
  /\ codec' = [op |-> "parseIndex", index |-> index, parseExp |-> parseExp,
               ignoreErrors |-> ignoreErrors,
               parsed |-> parseIndex(tz, index, parseExp, ignoreErrors)]
  /\ UNCHANGED <<tz, fs, hs, last, scan, calls, outside>>

\* the numbers and lengths numberFormatToString is given
MaxLength == 6

NumberArgs ==
  {PyInt(n) : n \in {-7, -1, 0, 7, 9, 10, 99, 100, 999, 1000, 2048, 9999, 10000,
                     12345, 91111, 99999, 100000, 123456, 1234567}} \cup
  {PyFloat(35), PyBool(1)}

\* numberFormatToString(number, length, strict)
NumberFormatToString(number, length, strict) ==
  /\ codec = NoCodec
  /\ codec' = [op |-> "numberFormatToString", number |-> number, length |-> length,
               strict |-> strict,
               out |-> numberFormatToString(number, length, strict)]
  /\ UNCHANGED <<tz, fs, hs, last, scan, calls, outside>>

NextCodec ==
  \/ \E number \in NumberArgs, length \in (-1)..MaxLength, strict \in BOOLEAN :
        NumberFormatToString(number, length, strict)
  \/ \E prefix \in PrefixParts, timestamp \in TimeArgs, suffixNum \in SeedArgs :
        GenThenParse(prefix, timestamp, suffixNum)
  \/ \E pref \in PrefixParts, date \in DateParts, suff \in SuffixParts,
        parseExp \in {"index", "date", "pref"}, ignoreErrors \in BOOLEAN :
        ParseIndex(pref \o date \o suff, parseExp, ignoreErrors)

SpecCodec == InitCodec /\ [][NextCodec]_vars

(***************************************************************************)
(* SpecSeq: the caller makes several calls in a row on the File objects it *)
(* holds; once, a file may be removed behind the package's back.           *)
(***************************************************************************)
MaxCalls == 2

InitSeq ==
  /\ tz = ZoneUTC
  /\ \E nameKind \in {"plain", "index"}, twinKind \in {"twin", "other"} :
        \E w \in {InitialFiles(tz, nameKind, twinKind, "occupied")} :
            /\ fs = w.fsys
            /\ hs = (1 :> Handle(w.pathA, "footage")) @@ (2 :> Handle(w.pathB, "footage"))
  /\ last = NoCall
  /\ scan = NoScan
  /\ calls = MaxCalls
  /\ codec = NoCodec
  /\ outside = FALSE

\* os.remove(path) by another program
RemovedOutside(p) ==
  /\ Idle
  /\ ~outside
  /\ p \in DOMAIN fs
  /\ fs' = Without(fs, p)
  /\ outside' = TRUE
  /\ last' = [op |-> "os.remove", path |-> p, fs0 |-> fs, hs0 |-> hs]
  /\ UNCHANGED <<tz, hs, scan, calls, codec>>

\* the destinations of a copy or a move in a sequence of calls: a free
\* name and the name of the second file of A, in either spelling
SeqPathArgs ==
  LET Joined == {<<d, n, Ext>> : d \in {"A", "B"}, n \in {PlainB, PlainC}}
  IN  Joined \cup {p \o <<Respelled>> : p \in Joined}

NextSeq ==
  \/ \E h \in DOMAIN hs, method \in FileReads : Get(h, method)
  \/ \E d \in {Directory("B", "footage"), Directory(None, "footage")},
        method \in DirectoryMethods :
        DirectoryCall(d, method, TRUE)
  \/ \E h \in DOMAIN hs, name \in {PlainB, PlainC} : SetName(h, name)
  \/ \E h \in DOMAIN hs, force \in BOOLEAN : SetIndex(h, force)
  \/ \E h \in DOMAIN hs, fromIndex \in BOOLEAN :
        SetDatetime(h, <<T0 + 30, 0>>, "m", fromIndex)
  \/ \E h \in DOMAIN hs : Unlink(h)
  \/ \E h \in DOMAIN hs, destPath \in SeqPathArgs, strict \in BOOLEAN :
        CopyTo(h, destPath, TRUE, strict)
  \/ \E h \in DOMAIN hs, destPath \in SeqPathArgs, strict \in BOOLEAN :
        MoveTo(h, destPath, strict)
  \/ \E h \in DOMAIN hs : Delete(h)
  \/ \E h \in DOMAIN hs, dstRootPath \in {"A", "B"}, copy \in BOOLEAN :
        ImportFile(h, dstRootPath, copy, TRUE)
  \/ \E h \in DOMAIN hs, copy \in BOOLEAN, at \in InterruptPoints :
        ImportFileInterrupted(h, "B", copy, TRUE, at, "KeyboardInterrupt")
  \/ \E h \in DOMAIN hs : hs[h].path # NonePath /\ RemovedOutside(OnDisk(hs[h].path))

SpecSeq == InitSeq /\ [][NextSeq]_vars

(***************************************************************************)
(* Properties.  last holds the call that was made and the filesystem and   *)
(* File objects it started from; fs and hs are what it left.               *)
(***************************************************************************)
\* the File object the call was made on, as it was before the call
Before == last.hs0[last.h]

\* directory d holds the files it held before the call, with their content
SameFilesIn(d) ==
  /\ FilesIn(fs, d) = FilesIn(last.fs0, d)
  /\ \A p \in FilesIn(fs, d) : fs[p].content = last.fs0[p].content

\* the path importFile copies or moves the file to
ImportDest == <<last.args.dstRootPath, getName(Before), PathExt(Before.path)>>

\* the file at p passes both checks of checkIntegrity in filesystem f
Sound(z, f, p) ==
  IsIndex(z, PathName(p)) /\ f[p].mtime = IndexDatetime(z, PathName(p))

\* the files the issues of the finished scan are about
IssuePaths == {scan.issues[i][1] : i \in 1..Len(scan.issues)}

(***************************************************************************)
(* C1                                                                      *)
(***************************************************************************)
C1_CopyMade == copyTo(last.fs0, Before, ImportDest, TRUE, TRUE, <<0, 0>>)

\* importFile(copy=True, indexing=True) made the copy and setIndex on it failed
C1_IndexingFailed ==
  /\ last.op = "importFile" /\ last.args.copy /\ last.args.indexing
  /\ Before.path # NonePath
  /\ C1_CopyMade.err = "none"
  /\ setIndex(tz, C1_CopyMade.fs, C1_CopyMade.ret, FALSE).err # "none"

\* C1: when importFile with copy and indexing fails to index the copy, it
\* raises FileImportingError, the destination directory holds exactly the
\* files it held before, and the source file is at its path with its content.
C1_CopyRolledBack ==
  C1_IndexingFailed =>
    /\ last.err = "FileImportingError"
    /\ SameFilesIn(last.args.dstRootPath)
    /\ Before.path \in DOMAIN fs
    /\ fs[Before.path].content = last.fs0[Before.path].content

\* the copy of a file whose name has no leading letter stays in the
\* destination and the ParserError of getMediaType leaves importFile
C1_CopyLeftBehind ==
  /\ C1_IndexingFailed
  /\ last.err = "ParserError0"
  /\ ImportDest \in DOMAIN fs
  /\ ImportDest \notin DOMAIN last.fs0

(***************************************************************************)
(* C2                                                                      *)
(***************************************************************************)
C2_Moved == moveTo(last.fs0, Before, ImportDest, TRUE)

\* importFile(copy=False, indexing=True) moved the file and setIndex failed
C2_IndexingFailed ==
  /\ last.op = "importFile" /\ ~last.args.copy /\ last.args.indexing
  /\ Before.path # NonePath
  /\ C2_Moved.err = "none"
  /\ setIndex(tz, C2_Moved.fs, C2_Moved.f, FALSE).err # "none"

\* C2: when importFile with move and indexing fails to index the moved file,
\* the file is back at its original path, the File object's path is the
\* original path, the destination directory holds what it held before, and
\* FileImportingError is raised, whatever else the source directory holds.
C2_MoveRolledBack ==
  C2_IndexingFailed =>
    /\ last.err = "FileImportingError"
    /\ Before.path \in DOMAIN fs
    /\ fs[Before.path].content = last.fs0[Before.path].content
    /\ hs[last.h].path = Before.path
    /\ SameFilesIn(last.args.dstRootPath)

\* setIndex raised FileIndexingError, the source directory holds another file
\* with the content of the imported one, and the move back is refused: the
\* file stays in the destination and FileExistsError leaves importFile
C2_TwinBlocksRollback ==
  /\ C2_IndexingFailed
  /\ setIndex(tz, C2_Moved.fs, C2_Moved.f, FALSE).err = "FileIndexingError"
  /\ \E q \in FilesIn(last.fs0, PathDir(Before.path)) \ {Before.path} :
        last.fs0[q].content = last.fs0[Before.path].content
  /\ last.err = "FileExistsError"
  /\ hs[last.h].path = ImportDest
  /\ ImportDest \in DOMAIN fs
  /\ Before.path \notin DOMAIN fs

(***************************************************************************)
(* C3                                                                      *)
(***************************************************************************)
\* the index setIndex generates for the file the call was made on
C3_Generated ==
  genIndex(tz, getPrefix(getMediaType(tz, Before).val).val,
           last.fs0[Before.path].mtime, SizeOf[last.fs0[Before.path].content])

\* setIndex was called on a file without an index whose generated index is
\* the name of a file of its directory
C3_NameOccupied ==
  /\ last.op = "setIndex"
  /\ Before.path \in DOMAIN last.fs0
  /\ ~IsIndex(tz, getName(Before))
  /\ getMediaType(tz, Before).err = "none"
  /\ getPrefix(getMediaType(tz, Before).val).err = "none"
  /\ C3_Generated.err = "none"
  /\ <<PathDir(Before.path), C3_Generated.val, PathExt(Before.path)>> \in DOMAIN last.fs0

\* C3: setIndex on a file without an index whose generated index name is
\* taken raises FileIndexingError and changes no file and no File object.
C3_CollisionLeavesFile ==
  C3_NameOccupied =>
    /\ last.err = "FileIndexingError"
    /\ fs = last.fs0
    /\ hs = last.hs0

C3_CollisionHappens ==
  /\ C3_NameOccupied
  /\ last.err = "FileIndexingError"
  /\ Before.path \in DOMAIN fs

(***************************************************************************)
(* C4                                                                      *)
(***************************************************************************)
\* setIndex(force=False) was called on a file whose name is a valid index
C4_AlreadyIndexed ==
  /\ last.op = "setIndex" /\ ~last.args.force
  /\ Before.path \in DOMAIN last.fs0
  /\ IsIndex(tz, getName(Before))

\* C4: setIndex(force=False) on a file whose name is a valid index raises
\* FileIndexingError and leaves path, name and timestamps as they were.
C4_IndexedFileRefused ==
  C4_AlreadyIndexed =>
    /\ last.err = "FileIndexingError"
    /\ fs = last.fs0
    /\ hs = last.hs0

C4_RefusalHappens ==
  /\ C4_AlreadyIndexed
  /\ last.err = "FileIndexingError"
  /\ last.fs0[Before.path].mtime # IndexDatetime(tz, getName(Before))

(***************************************************************************)
(* C5                                                                      *)
(***************************************************************************)
\* the index generated from media type, the timestamp the old index decodes
\* to, and the size
C5_Regenerated ==
  genIndex(tz, getPrefix(getMediaType(tz, Before).val).val,
           IndexDatetime(tz, getName(Before)), SizeOf[last.fs0[Before.path].content])

C5_NewPath == <<PathDir(Before.path), C5_Regenerated.val, PathExt(Before.path)>>

\* setIndex(force=True) was called on a file whose name is a valid index, of
\* a registered media type, and the regenerated name is free
C5_ForcedOnIndexed ==
  /\ last.op = "setIndex" /\ last.args.force
  /\ Before.path \in DOMAIN last.fs0
  /\ IsIndex(tz, getName(Before))
  /\ getMediaType(tz, Before).err = "none"
  /\ getPrefix(getMediaType(tz, Before).val).err = "none"
  /\ C5_Regenerated.err = "none"
  /\ C5_NewPath \notin DOMAIN last.fs0

\* C5: setIndex(force=True) on a file whose name is a valid index sets the
\* timestamp decoded from the old index, then generates the index from media
\* type, mtime and size and renames the file to it.
C5_ForceReindexes ==
  C5_ForcedOnIndexed =>
    /\ last.err = "none"
    /\ hs[last.h].path = C5_NewPath
    /\ C5_NewPath \in DOMAIN fs
    /\ fs[C5_NewPath].mtime = IndexDatetime(tz, getName(Before))

\* the timestamp is set from the index and the file keeps its old name
C5_OnlyResynced ==
  /\ C5_ForcedOnIndexed
  /\ last.err = "none"
  /\ hs = last.hs0
  /\ DOMAIN fs = DOMAIN last.fs0
  /\ fs[Before.path].mtime = IndexDatetime(tz, getName(Before))
  /\ last.fs0[Before.path].mtime # IndexDatetime(tz, getName(Before))

(***************************************************************************)
(* C6 (under SpecCodec)                                                    *)
(***************************************************************************)
\* C6: for every registered prefix P, timestamp T of whole seconds and seed
\* S >= 0, genIndex(P, T, S) is made and parseIndex of it gives prefix P, the
\* timestamp T, the media type registered to P and, as suffix, the last five
\* digits of S padded with zeros on the left.
C6_RoundTrip ==
  codec.op = "genparse" =>
    /\ codec.index.err = "none"
    /\ codec.parsed.err = "none"
    /\ codec.parsed.pref = codec.prefix
    /\ codec.parsed.datets = <<codec.timestamp, 0>>
    /\ codec.parsed.mediatype = MediaTypeOf(codec.prefix)
    /\ codec.parsed.suff =
         PadLeft(IntToStr(codec.suffixNum % Pow10(INDEX_SUFFIX_LENGTH)), INDEX_SUFFIX_LENGTH)

\* in the hour the clocks repeat when daylight saving ends, the index decodes
\* to the other of the two instants that share its wall-clock time
C6_RepeatedHour ==
  /\ codec.op = "genparse"
  /\ codec.index.err = "none"
  /\ codec.parsed.err = "none"
  /\ codec.parsed.datets[1] - codec.timestamp \in {3600, 0 - 3600}

(***************************************************************************)
(* C7                                                                      *)
(***************************************************************************)
\* a call of checkIntegrity(fix=False) is over
C7_CheckDone ==
  last.op = "checkIntegrity" /\ ~scan.fix /\ scan.result \notin {"idle", "running"}

\* the files under the directory that fail one of the two checks
C7_Failing == {p \in FilesUnder(last.fs0, scan.dir) : ~Sound(tz, last.fs0, p)}

\* C7: checkIntegrity(fix=False) returns True iff every file under the
\* directory, at any depth, has a valid index for a name and the mtime that
\* index decodes to; otherwise it raises DirectoryIntegrityError with exactly
\* one issue for each failing file, "Invalid index" or "Wrong datetime".
C7_OneIssuePerFailingFile ==
  C7_CheckDone =>
    /\ scan.result = (IF C7_Failing = {} THEN "True" ELSE "DirectoryIntegrityError")
    /\ Len(scan.issues) = Cardinality(C7_Failing)
    /\ \A p \in C7_Failing :
          \E i \in 1..Len(scan.issues) :
             scan.issues[i] = <<p, IF IsIndex(tz, PathName(p)) THEN "Wrong datetime"
                                   ELSE "Invalid index">>

\* a check that went past its first failing file and reported both kinds
C7_BothKindsReported ==
  /\ C7_CheckDone
  /\ scan.result = "DirectoryIntegrityError"
  /\ \E i, j \in 1..Len(scan.issues) :
        /\ scan.issues[i][2] = "Invalid index"
        /\ scan.issues[j][2] = "Wrong datetime"
        /\ PathDir(scan.issues[i][1]) # PathDir(scan.issues[j][1])

(***************************************************************************)
(* C8                                                                      *)
(***************************************************************************)
\* a call of checkIntegrity(fix=True) is over
C8_FixDone ==
  last.op = "checkIntegrity" /\ scan.fix /\ scan.result \notin {"idle", "running"}

\* the files under the directory that still fail one of the two checks
C8_Unresolved == {p \in FilesUnder(fs, scan.dir) : ~Sound(tz, fs, p)}

\* C8: checkIntegrity(fix=True) either returns True, with every file under
\* the directory sound, or raises DirectoryIntegrityError with one issue for
\* each file still unresolved; a repair that fails never leaves the call as
\* another exception.
C8_FixEndsInOneOfTwoWays ==
  C8_FixDone =>
    \/ scan.result = "True" /\ C8_Unresolved = {}
    \/ /\ scan.result = "DirectoryIntegrityError"
       /\ IssuePaths = C8_Unresolved
       /\ Len(scan.issues) = Cardinality(C8_Unresolved)

\* setIndex of the repair found its name taken and FileIndexingError left
\* checkIntegrity
C8_RepairEscapes ==
  /\ C8_FixDone
  /\ scan.result = "FileIndexingError"
  /\ C8_Unresolved # {}

(***************************************************************************)
(* C9                                                                      *)
(***************************************************************************)
\* the path string a call of setName, copyTo or moveTo is to make
C9_Target ==
  IF last.op = "setName" THEN <<PathDir(Before.path), last.args.name, PathExt(Before.path)>>
  ELSE last.args.destPath

\* setName, copyTo or moveTo was called with the path of an existing file as
\* target
C9_TargetExists ==
  /\ last.op \in {"setName", "copyTo", "moveTo"}
  /\ Before.path \in DOMAIN last.fs0
  /\ OnDisk(C9_Target) \in DOMAIN last.fs0

\* C9: setName, copyTo and moveTo called with the path of an existing file as
\* target raise FileExistsError, strict or not, and no file's content, name
\* or location and no File object's path changes.
C9_NeverOverwrites ==
  C9_TargetExists =>
    /\ last.err = "FileExistsError"
    /\ DOMAIN fs = DOMAIN last.fs0
    /\ \A p \in DOMAIN fs : fs[p].content = last.fs0[p].content
    /\ hs = last.hs0

\* a copy to the path of another file, spelled otherwise than os.path.join
\* spells it, goes through and replaces the content of that file
C9_Overwritten ==
  /\ C9_TargetExists
  /\ last.op = "copyTo"
  /\ OnDisk(C9_Target) # Before.path
  /\ last.err = "none"
  /\ fs[OnDisk(C9_Target)].content # last.fs0[OnDisk(C9_Target)].content

(***************************************************************************)
(* C10                                                                     *)
(***************************************************************************)
\* copyTo or moveTo was called on an existing file
C10_Transfer ==
  last.op \in {"copyTo", "moveTo"} /\ Before.path \in DOMAIN last.fs0

\* a file of the destination directory has the bytes of the source
C10_SameBytesAtDest ==
  \E q \in FilesIn(last.fs0, PathDir(last.args.destPath)) :
     last.fs0[q].content = last.fs0[Before.path].content

\* C10: copyTo and moveTo raise FileExistsError iff (a) strict is set and a
\* file of the destination directory is byte-identical to the source, or (b)
\* the destination path is an existing file; a file of other content never
\* counts for (a).
C10_CollisionIffSameBytesOrPath ==
  C10_Transfer =>
    (last.err = "FileExistsError" <=>
       \/ last.args.strict /\ C10_SameBytesAtDest
       \/ last.args.destPath \in DOMAIN last.fs0)

\* a strict transfer to a free path is refused though no file of the
\* destination directory has the bytes of the source
C10_OtherContentBlocks ==
  /\ C10_Transfer
  /\ last.args.strict
  /\ last.args.destPath \notin DOMAIN last.fs0
  /\ ~C10_SameBytesAtDest
  /\ last.err = "FileExistsError"

(***************************************************************************)
(* C11                                                                     *)
(***************************************************************************)
\* copyTo returned
C11_Copied ==
  /\ last.op = "copyTo"
  /\ last.err = "none"

\* the slot the caller keeps the returned File object in
C11_NewSlot == Cardinality(DOMAIN last.hs0) + 1

\* C11: a copyTo that returns leaves the source File object as it was and the
\* source file with its content and, with preserveDate, its timestamps; the
\* File object it returns is another object, at the destination path, which
\* exists, has the content the source had, the media type of the source and,
\* with preserveDate, the mtime and atime of the source.
C11_CopyKeepsSource ==
  C11_Copied =>
    /\ hs[last.h] = Before
    /\ Before.path \in DOMAIN fs
    /\ fs[Before.path].content = last.fs0[Before.path].content
    /\ last.args.preserveDate =>
         /\ fs[Before.path].mtime = last.fs0[Before.path].mtime
         /\ fs[Before.path].atime = last.fs0[Before.path].atime
    /\ C11_NewSlot \notin DOMAIN last.hs0
    /\ C11_NewSlot \in DOMAIN hs
    /\ hs[C11_NewSlot] = last.ret
    /\ last.ret.path = last.args.destPath
    /\ OnDisk(last.ret.path) \in DOMAIN fs
    /\ fs[OnDisk(last.ret.path)].content = last.fs0[Before.path].content
    /\ last.ret.mt = Before.mt
    /\ last.args.preserveDate =>
         /\ fs[OnDisk(last.ret.path)].mtime = last.fs0[Before.path].mtime
         /\ fs[OnDisk(last.ret.path)].atime = last.fs0[Before.path].atime

\* a copy of a file onto itself, the path spelled otherwise than os.path.join
\* spells it, returned and left the source empty
C11_SourceEmptied ==
  /\ C11_Copied
  /\ OnDisk(last.args.destPath) = Before.path
  /\ last.fs0[Before.path].content # Empty
  /\ fs[Before.path].content = Empty

(***************************************************************************)
(* C12                                                                     *)
(***************************************************************************)
\* moveTo returned
C12_Moved ==
  /\ last.op = "moveTo"
  /\ last.err = "none"

\* C12: a moveTo(destPath) that returns hands back no File object, the File
\* object it was called on has destPath as its path, the file is at destPath
\* with the content it had, and there is no file at the original path.
C12_MoveRelocates ==
  C12_Moved =>
    /\ last.ret = NoFile
    /\ DOMAIN hs = DOMAIN last.hs0
    /\ hs[last.h].path = last.args.destPath
    /\ OnDisk(last.args.destPath) \in DOMAIN fs
    /\ fs[OnDisk(last.args.destPath)].content = last.fs0[Before.path].content
    /\ Before.path \notin DOMAIN fs

\* a move of a file onto itself, the path spelled otherwise than os.path.join
\* spells it, returned and the file is still at its original path
C12_StillAtOriginalPath ==
  /\ C12_Moved
  /\ OnDisk(last.args.destPath) = Before.path
  /\ hs[last.h].path # Before.path
  /\ Before.path \in DOMAIN fs

(***************************************************************************)
(* C13                                                                     *)
(***************************************************************************)
\* importFile returned
C13_Imported ==
  /\ last.op = "importFile"
  /\ last.err = "none"

\* C13: an importFile that returns hands back a File object of a file in the
\* destination directory.  With copy it is a new object and the source File
\* object keeps its path, also when indexing renames the copy; without copy
\* it is the source File object itself and no file is at the original path.
\* With indexing the name of the returned object is a valid index.
C13_ImportReturnsFile ==
  C13_Imported =>
    /\ last.ret.path # NonePath
    /\ OnDisk(last.ret.path) \in DOMAIN fs
    /\ PathDir(last.ret.path) = last.args.dstRootPath
    /\ last.args.copy =>
         /\ hs[last.h] = Before
         /\ Before.path \in DOMAIN fs
         /\ DOMAIN hs = DOMAIN last.hs0 \cup {Cardinality(DOMAIN last.hs0) + 1}
         /\ hs[Cardinality(DOMAIN last.hs0) + 1] = last.ret
         /\ last.ret.path # Before.path
    /\ ~last.args.copy =>
         /\ DOMAIN hs = DOMAIN last.hs0
         /\ hs[last.h] = last.ret
         /\ Before.path \notin DOMAIN fs
    /\ last.args.indexing => IsIndex(tz, getName(last.ret))

\* a copy was imported and indexed: it has another name than the source
C13_CopyImportedAndIndexed ==
  /\ C13_Imported
  /\ last.args.copy /\ last.args.indexing
  /\ getName(last.ret) # getName(Before)
  /\ getName(hs[last.h]) = getName(Before)

\* a file was moved in and indexed
C13_MoveImportedAndIndexed ==
  /\ C13_Imported
  /\ ~last.args.copy /\ last.args.indexing
  /\ getName(hs[last.h]) # getName(Before)

(***************************************************************************)
(* C14                                                                     *)
(***************************************************************************)
\* the files of the destination directory that collide with the source: the
\* one at the path the import is to make and those with the source's content
C14_CollidingFiles ==
  {q \in FilesIn(last.fs0, last.args.dstRootPath) :
      q = ImportDest \/ last.fs0[q].content = last.fs0[Before.path].content}

\* importFile was called on an existing file and the destination directory
\* held a colliding file
C14_Colliding ==
  /\ last.op = "importFile"
  /\ Before.path \in DOMAIN last.fs0
  /\ C14_CollidingFiles # {}

C15_Interrupted ==
  /\ last.op = "importFileInterrupted"
  /\ last.args.copy

\* C15: when an interruption arrives at any point of a copy-mode importFile,
\* the call ends with that interruption and the destination directory holds
\* no file that it did not hold before the call.
C15_InterruptedCopyCleansUp ==
  C15_Interrupted =>
    /\ last.err = last.args.intr
    /\ FilesIn(fs, last.args.dstRootPath) \subseteq FilesIn(last.fs0, last.args.dstRootPath)

\* the interruption arrived after setIndex had renamed the copy: the copy is
\* still in the destination directory and FileNotFoundError reached the caller
C15_CopyLeftUnderIndexName ==
  /\ C15_Interrupted
  /\ last.args.at = "indexed"
  /\ last.err = "FileNotFoundError"
  /\ \E p \in FilesIn(fs, last.args.dstRootPath) \ DOMAIN last.fs0 :
        fs[p].content = last.fs0[Before.path].content

(***************************************************************************)
(* C16                                                                     *)
(***************************************************************************)
\* a move-mode importFile was interrupted
C16_Interrupted ==
  /\ last.op = "importFileInterrupted"
  /\ ~last.args.copy

\* C16: when an interruption arrives at any point of a move-mode importFile,
\* the call ends with that interruption, the file is at its original path
\* with its content and the source File object has that path.
C16_InterruptedMoveRestores ==
  C16_Interrupted =>
    /\ last.err = last.args.intr
    /\ Before.path \in DOMAIN fs
    /\ fs[Before.path].content = last.fs0[Before.path].content
    /\ hs[last.h].path = Before.path

\* the interruption arrived before the move: the handler's moveTo(oldPath)
\* found the file at its own path and FileExistsError reached the caller
C16_InterruptBecomesCollision ==
  /\ C16_Interrupted
  /\ last.args.at = "scan"
  /\ Before.path \in DOMAIN last.fs0
  /\ last.err = "FileExistsError"

(***************************************************************************)
(* C17                                                                     *)
(***************************************************************************)
\* setIndex was called on an existing file whose name is not an index and
\* whose File object has no media type or one that is not registered
C17_Untyped ==
  /\ last.op = "setIndex"
  /\ Before.path \in DOMAIN last.fs0
  /\ ~IsIndex(tz, getName(Before))
  /\ Before.mt \notin MediaTypes

\* C17: setIndex on a file that is not indexed and whose media type is None
\* or not registered raises FileIndexingError and renames nothing, whatever
\* the name of the file is.
C17_UntypedRefused ==
  C17_Untyped =>
    /\ last.err = "FileIndexingError"
    /\ DOMAIN fs = DOMAIN last.fs0
    /\ hs = last.hs0

\* a file without media type whose name begins with a registered prefix was
\* indexed: the media type was taken from the name
C17_PrefixNameIndexed ==
  /\ C17_Untyped
  /\ Before.mt = None
  /\ last.err = "none"
  /\ hs[last.h].path # Before.path
  /\ Before.path \notin DOMAIN fs

\* a file without media type whose name begins with a digit: the parser's
\* error left setIndex
C17_DigitNameEscapes ==
  /\ C17_Untyped
  /\ Before.mt = None
  /\ Head(getName(Before)) \in Digits
  /\ last.err = "ParserError0"

(***************************************************************************)
(* C18                                                                     *)
(***************************************************************************)
\* setIndex returned on an existing file whose name was not an index
C18_Indexed ==
  /\ last.op = "setIndex"
  /\ Before.path \in DOMAIN last.fs0
  /\ ~IsIndex(tz, getName(Before))
  /\ last.err = "none"

\* the new name, parsed as an index
C18_Parsed == parseIndex(tz, getName(hs[last.h]), "index", FALSE)

\* C18: a setIndex that returns on a file that was not indexed has renamed
\* it, in its directory and with its extension, to a valid index: the prefix
\* is the one registered for the media type of the File object, the date is
\* the file's mtime as local time in the index format, the suffix is the byte
\* size formatted, not strictly, to INDEX_SUFFIX_LENGTH digits.  The File
\* object has the new path and the file is otherwise as it was.
C18_IndexNamesFile ==
  C18_Indexed =>
    /\ PathDir(hs[last.h].path) = PathDir(Before.path)
    /\ PathExt(hs[last.h].path) = PathExt(Before.path)
    /\ hs[last.h].path # Before.path
    /\ DOMAIN fs = (DOMAIN last.fs0 \ {Before.path}) \cup {hs[last.h].path}
    /\ Before.path \notin DOMAIN fs
    /\ fs[hs[last.h].path] = last.fs0[Before.path]
    /\ C18_Parsed.err = "none"
    /\ C18_Parsed.keys = {"pref", "mediatype", "datestring", "datets", "suff"}
    /\ C18_Parsed.pref = INDEX_PREFIX[getMediaType(tz, Before).val]
    /\ C18_Parsed.datestring = Strftime(FromTimestamp(tz, last.fs0[Before.path].mtime))
    /\ C18_Parsed.suff =
         numberFormatToString(PyInt(SizeOf[last.fs0[Before.path].content]),
                              INDEX_SUFFIX_LENGTH, FALSE).val

\* a file larger than the suffix can say, with an mtime other than its atime,
\* was indexed
C18_LargeFileIndexed ==
  /\ C18_Indexed
  /\ SizeOf[last.fs0[Before.path].content] >= Pow10(INDEX_SUFFIX_LENGTH)
  /\ last.fs0[Before.path].mtime # last.fs0[Before.path].atime
  /\ hs[last.h].path \in DOMAIN fs

(***************************************************************************)
(* C19                                                                     *)
(***************************************************************************)
\* parseIndex was called with the index expression and ignoreErrors=False
C19_StrictParse ==
  /\ codec.op = "parseIndex"
  /\ codec.parseExp = "index"
  /\ ~codec.ignoreErrors

\* the string is a registered prefix, then INDEX_DATETIME_LENGTH digits that
\* are a date and time of the calendar, then INDEX_SUFFIX_LENGTH digits, and
\* nothing more
C19_WellFormed(index) ==
  \E p \in PrefixValues :
     /\ Len(index) = Len(p) + INDEX_DATETIME_LENGTH + INDEX_SUFFIX_LENGTH
     /\ SubSeq(index, 1, Len(p)) = p
     /\ AllDigits(SubSeq(index, Len(p) + 1, Len(index)))
     /\ Strptime(SubSeq(index, Len(p) + 1, Len(p) + INDEX_DATETIME_LENGTH)).err = "none"

\* C19: strict parseIndex returns exactly on the strings made of a registered
\* prefix in its exact case, 14 digits that are a valid date and time, and 5
\* digits with nothing after them, and raises on every other string; when it
\* returns, the result holds the prefix, the date string, the timestamp it
\* decodes to, the suffix and the media type of the prefix.
C19_ParsesExactlyIndexes ==
  C19_StrictParse =>
    /\ codec.parsed.err = "none" <=> C19_WellFormed(codec.index)
    /\ codec.parsed.err = "none" =>
         /\ codec.parsed.keys = {"pref", "mediatype", "datestring", "datets", "suff"}
         /\ codec.parsed.pref \in PrefixValues
         /\ INDEX_PREFIX[codec.parsed.mediatype] = codec.parsed.pref
         /\ codec.index = codec.parsed.pref \o codec.parsed.datestring \o codec.parsed.suff
         /\ Len(codec.parsed.datestring) = INDEX_DATETIME_LENGTH
         /\ codec.parsed.datets =
              <<Mktime(tz, Strptime(codec.parsed.datestring).val), 0>>

\* a valid index followed by a newline was parsed as a valid index
C19_TrailingNewlineAccepted ==
  /\ C19_StrictParse
  /\ codec.index # <<>>
  /\ codec.index[Len(codec.index)] = Newline
  /\ codec.parsed.err = "none"

(***************************************************************************)
(* C20                                                                     *)
(***************************************************************************)
\* numberFormatToString was called
C20_Formatted == codec.op = "numberFormatToString"

\* what the call has to give for an int n >= 0 and a length L >= 1: a string
\* of L digits whose value is n, or n without its leading digits, or, in
\* strict mode for an n of more than L digits, ValueError
C20_Fits(n, L, strict, out) ==
  IF n < Pow10(L)
  THEN /\ out.err = "none"
       /\ Len(out.val) = L
       /\ AllDigits(out.val)
       /\ StrToInt(out.val) = n
       /\ (Len(IntToStr(n)) = L => out.val = IntToStr(n))
       /\ \A i \in 1..(L - Len(IntToStr(n))) : out.val[i] = "0"
  ELSE IF strict THEN out.err = "ValueError"
  ELSE /\ out.err = "none"
       /\ Len(out.val) = L
       /\ \A i \in 1..L : out.val[i] = IntToStr(n)[Len(IntToStr(n)) - L + i]

\* C20 as it is worded: the outcome for n >= 0 and L >= 1, ValueError for
\* every negative n, TypeError for every n that is not an int, None for
\* every L < 1.
C20_AsWorded ==
  C20_Formatted =>
    /\ (codec.number.type = "int" /\ codec.number.val >= 0 /\ codec.length >= 1) =>
          C20_Fits(codec.number.val, codec.length, codec.strict, codec.out)
    /\ (codec.number.type = "int" /\ codec.number.val < 0) => codec.out.err = "ValueError"
    /\ codec.number.type # "int" => codec.out.err = "TypeError"
    /\ codec.length < 1 => codec.out = Ok(None)

\* C20: for an int n >= 0 and L >= 1 the result has exactly L characters: n
\* padded with zeros on the left, n itself, or in non-strict mode the last L
\* digits of n; strict mode raises ValueError for an n of more than L digits.
\* An n that is not an int raises TypeError, whatever L is; for an int n,
\* L < 1 gives None, whatever n is; a negative n with L >= 1 raises ValueError.
C20_FixedLength ==
  C20_Formatted =>
    /\ (codec.number.type = "int" /\ codec.number.val >= 0 /\ codec.length >= 1) =>
          C20_Fits(codec.number.val, codec.length, codec.strict, codec.out)
    /\ (codec.number.type = "int" /\ codec.number.val < 0 /\ codec.length >= 1) =>
          codec.out.err = "ValueError"
    /\ codec.number.type # "int" => codec.out.err = "TypeError"
    /\ (codec.number.type = "int" /\ codec.length < 1) => codec.out = Ok(None)

\* a number of more digits than the length was cut to its last digits, and
\* these are not its first digits
C20_LeadingDigitsDropped ==
  /\ C20_Formatted
  /\ codec.number.type = "int"
  /\ codec.length >= 1
  /\ codec.number.val >= Pow10(codec.length)
  /\ ~codec.strict
  /\ codec.out.err = "none"
  /\ codec.out.val # SubSeq(IntToStr(codec.number.val), 1, codec.length)

\* a negative number with a length below 1: None, not ValueError
C20_NegativeWithNoLength ==
  /\ C20_Formatted
  /\ codec.number.type = "int"
  /\ codec.number.val < 0
  /\ codec.length < 1
  /\ codec.out = Ok(None)

(***************************************************************************)
(* C21: genIndex validates what it builds.                                 *)
(***************************************************************************)
C21_Generated == codec.op = "genparse"

C21_InvalidInput ==
  \/ codec.prefix \notin PrefixValues
  \/ codec.timestamp < 0
  \/ codec.suffixNum < 0

\* C21: genIndex fails with a ParserError and returns no index whenever the
\* prefix is not a registered one, the timestamp is negative or the suffix
\* seed is negative, and a string it returns is one parseIndex accepts.
C21_InvalidInputFails ==
  C21_Generated =>
    /\ C21_InvalidInput =>
         codec.index.err \in {"ParserError0", "ParserError1", "ParserError2",
                              "ParserError1000"}
    /\ codec.index.err = "none" => codec.parsed.err = "none"

\* C21, where it fails: a registered prefix, a negative timestamp and a
\* sound seed give an index on a platform that converts instants before 1970
C21_NegativeTimeIndexed ==
  /\ C21_Generated
  /\ codec.prefix \in PrefixValues
  /\ codec.timestamp < 0
  /\ codec.suffixNum >= 0
  /\ codec.index.err = "none"
  /\ codec.parsed.err = "none"
  /\ codec.parsed.datets[1] = codec.timestamp

(***************************************************************************)
(* C22: File.delete.                                                       *)
(***************************************************************************)
C22_Deleted == last.op = "delete"

C22_FileThere == exists(last.fs0, Before)

\* C22: delete() on a File object whose file is not there (removed from
\* outside, deleted or unlinked before) raises FileNotFoundError and changes
\* neither the files nor the object; on a file that is there it removes that
\* file and nothing else and sets the object's path to None, so that exists()
\* is then false.
C22_DeleteOnce ==
  C22_Deleted =>
    IF C22_FileThere
    THEN /\ last.err = "none"
         /\ fs = Without(last.fs0, OnDisk(Before.path))
         /\ hs[last.h].path = NonePath
         /\ ~exists(fs, hs[last.h])
         /\ delete(fs, hs[last.h]).err = "FileNotFoundError"
    ELSE /\ last.err = "FileNotFoundError"
         /\ fs = last.fs0
         /\ hs = last.hs0

\* C22 happens: a second delete() on the same object has failed
C22_DeletedTwice ==
  /\ C22_Deleted
  /\ Before.path = NonePath
  /\ last.err = "FileNotFoundError"
  /\ ~outside
  /\ \E p \in DOMAIN InitialFiles(tz, "plain", "other", "occupied").fsys \cup
              DOMAIN InitialFiles(tz, "index", "other", "occupied").fsys :
        p \notin DOMAIN fs

\* C22 happens: delete() on a file that was removed from outside has failed
C22_RemovedOutsideThenDeleted ==
  /\ C22_Deleted
  /\ outside
  /\ Before.path # NonePath
  /\ ~C22_FileThere
  /\ last.err = "FileNotFoundError"

(***************************************************************************)
(* C23: reads of an unlinked object.                                       *)
(***************************************************************************)
C23_FileRead == last.op \in {"getPath", "getName", "getExt", "getDir"} /\ Before.path = NonePath

C23_DirectoryRead ==
  /\ last.op \in {"Directory.getPath", "Directory.getName", "Directory.getDir"}
  /\ last.dir.path = None

\* C23: on a File or Directory object whose path is None, getPath, getName and
\* getDir (and getExt of a File) raise an exception and return nothing.
C23_NullPathReadFails == (C23_FileRead \/ C23_DirectoryRead) => last.err # "none"

\* C23, where it fails: getPath() of an unlinked File has returned None
C23_NullPathReturned ==
  /\ C23_FileRead
  /\ last.op = "getPath"
  /\ last.hs0[last.h].path = NonePath
  /\ last.err = "none"
  /\ last.ret = NonePath

(***************************************************************************)
(* C24: the listings of a Directory.                                       *)
(***************************************************************************)
C24_Listed == last.op \in {"Directory.getFiles", "Directory.getDirs", "Directory.getSize"}

\* the directories strictly below d, through the parent relation
C24_Below(d) == {c \in Dirs \cup {Deep} : c # d /\ (c \in ChildDirs(d) \/
                    \E m \in ChildDirs(d) : c \in ChildDirs(m))}

C24_FilesListed(recursive) ==
  {p \in DOMAIN last.fs0 :
      IF recursive THEN PathDir(p) = last.dir.path \/ PathDir(p) \in C24_Below(last.dir.path)
      ELSE PathDir(p) = last.dir.path}

\* C24: on a Directory whose directory exists, getFiles(recursive=True)
\* returns one File per file at any depth below it and getFiles(False) one
\* per file directly in it; getDirs(True) returns a Directory for every
\* directory strictly below it and never for itself, getDirs(False) for its
\* child directories; every object returned has the media type of the
\* Directory.  On a Directory that was removed or unlinked, getFiles, getDirs
\* and getSize raise NotADirectoryError.  No call changes a file.
C24_Listings ==
  C24_Listed =>
    /\ fs = last.fs0
    /\ IF last.dir.path \in Dirs \cup {Deep}
       THEN /\ last.err = "none"
            /\ last.op = "Directory.getFiles" =>
                 /\ {x.path : x \in last.ret} = C24_FilesListed(last.args.recursive)
                 /\ \A x \in last.ret : x.mt = last.dir.mt
            /\ last.op = "Directory.getDirs" =>
                 /\ {x.path : x \in last.ret} =
                      (IF last.args.recursive THEN C24_Below(last.dir.path)
                       ELSE ChildDirs(last.dir.path))
                 /\ last.dir.path \notin {x.path : x \in last.ret}
                 /\ \A x \in last.ret : x.mt = last.dir.mt
       ELSE last.err = "NotADirectoryError"

\* C24 happens: a recursive listing of directories has returned a directory
\* two levels down, and a recursive listing of files a file of a subdirectory
C24_DeepListing ==
  /\ C24_Listed
  /\ last.err = "none"
  /\ last.args.recursive
  /\ \/ last.op = "Directory.getDirs" /\ Directory(Deep, last.dir.mt) \in last.ret
                                      /\ Deep \notin ChildDirs(last.dir.path)
     \/ last.op = "Directory.getFiles" /\ \E x \in last.ret : PathDir(x.path) # last.dir.path

(***************************************************************************)
(* C25: the File objects of a caller after a sequence of calls.            *)
(***************************************************************************)
C25_Live == {h \in DOMAIN hs : hs[h].path # NonePath}

\* C25: as long as nothing outside the package touches the files, after any
\* sequence of setName, setIndex, setDatetime, copyTo, moveTo, delete, unlink
\* and importFile calls, whether they returned or raised, the path of every
\* File object is None or the path of a file that exists, and no two File
\* objects with a path have the same path.
C25_HandlesSound ==
  ~outside =>
    /\ \A h \in C25_Live : OnDisk(hs[h].path) \in DOMAIN fs
    /\ \A h, g \in C25_Live : h # g => hs[h].path # hs[g].path

\* C25, where it fails: a copy was written over the file of another File
\* object through a path spelled with a doubled separator, that object then
\* renamed its file, and the object copyTo returned has no file any more
C25_CopyLeftDangling ==
  /\ ~outside
  /\ last.op = "setName"
  /\ last.err = "none"
  /\ \E h \in C25_Live :
        /\ h # last.h
        /\ Len(hs[h].path) = 4
        /\ OnDisk(hs[h].path) = OnDisk(last.hs0[last.h].path)
        /\ OnDisk(hs[h].path) \notin DOMAIN fs

(***************************************************************************)
(* C26: importFile and the files of the destination directory.             *)
(***************************************************************************)
C26_Imported == last.op \in {"importFile", "importFileInterrupted"}

\* the files that were in the destination directory when the call was made
C26_Present == FilesIn(last.fs0, last.args.dstRootPath)

\* C26: an importFile call, whether it returns, raises or is interrupted
\* at any step, leaves every file that was already in the destination
\* directory in place, under its name and with its content and mtime.
C26_DestinationKept ==
  C26_Imported =>
    \A p \in C26_Present :
       /\ p \in DOMAIN fs
       /\ fs[p].content = last.fs0[p].content
       /\ fs[p].mtime = last.fs0[p].mtime

\* C26, where it fails: a copy-mode import into another directory was
\* interrupted while copyTo was scanning the destination, and the rollback
\* deleted the file of that directory that has the name of the source
C26_RollbackDeletedOther ==
  /\ last.op = "importFileInterrupted"
  /\ last.args.copy
  /\ last.args.at = "scan"
  /\ last.args.dstRootPath # PathDir(Before.path)
  /\ \E p \in C26_Present :
        /\ PathName(p) = PathName(Before.path)
        /\ p \notin DOMAIN fs
  /\ OnDisk(Before.path) \in DOMAIN fs

(***************************************************************************)
(* C27: importFile when its rollback fails.                                *)
(***************************************************************************)
\* the copy or the move an importFile call starts with
C27_Transfer ==
  IF last.args.copy THEN copyTo(last.fs0, Before, ImportDest, TRUE, TRUE, <<0, 0>>)
  ELSE moveTo(last.fs0, Before, ImportDest, TRUE)

\* setIndex refused the copied or moved file, which starts the rollback
C27_IndexRefused ==
  LET Refused(t) ==
        /\ t.err = "none"
        /\ setIndex(tz, t.fs, IF last.args.copy THEN t.ret ELSE t.f, FALSE).err =
             "FileIndexingError"
  IN  Refused(C27_Transfer)

\* an importFile call with indexing was refused the index and has left the
\* files changed: the rollback did not undo the copy or the move
C27_RollbackFailed ==
  /\ last.op = "importFile"
  /\ last.args.indexing
  /\ Before.path # NonePath
  /\ OnDisk(Before.path) \in DOMAIN last.fs0
  /\ C27_IndexRefused
  /\ fs # last.fs0

\* C27: when the rollback of a failed importFile fails too, the caller still
\* gets FileImportingError for the failure that started it.
C27_OriginalFailureReported == C27_RollbackFailed => last.err = "FileImportingError"

\* C27, where it fails: in move mode the index could not be set, moving the
\* file back collided with a file of the source directory, and the caller got
\* that FileExistsError with the file left in the destination directory
C27_CollisionReplacesFailure ==
  /\ C27_RollbackFailed
  /\ ~last.args.copy
  /\ last.err = "FileExistsError"
  /\ OnDisk(Before.path) \notin DOMAIN fs
  /\ ImportDest \in DOMAIN fs
  /\ hs[last.h].path = ImportDest

(***************************************************************************)
(* C28: what checkIntegrity(fix=True) repairs.                             *)
(***************************************************************************)
C28_Files == FilesUnder(last.fs0, scan.dir)

\* the date a name carries after its letters, if it carries one
C28_DateIn(name) == parseIndex(tz, name, "date", TRUE)

C28_HasDate(name) == C28_DateIn(name).err = "none" /\ "datets" \in C28_DateIn(name).keys

\* the name a file would have once repaired
C28_WouldBe(p) ==
  IF IsIndex(tz, PathName(p)) THEN PathName(p)
  ELSE IndexFor(tz, scan.mt,
                IF C28_HasDate(PathName(p)) THEN C28_DateIn(PathName(p)).datets
                ELSE last.fs0[p].mtime,
                last.fs0[p].content)

\* checkIntegrity(fix=True) has ended on a directory with a registered media
\* type in which no two files would get the same index
C28_Fixable ==
  /\ last.op = "checkIntegrity"
  /\ scan.fix
  /\ scan.result \notin {"idle", "running"}
  /\ scan.mt \in MediaTypes
  /\ \A p, q \in C28_Files :
        p # q => <<PathDir(p), C28_WouldBe(p)>> # <<PathDir(q), C28_WouldBe(q)>>

C28_Repaired(p) ==
  IF IsIndex(tz, PathName(p))
  THEN /\ p \in DOMAIN fs
       /\ fs[p].content = last.fs0[p].content
       /\ fs[p].mtime = IndexDatetime(tz, PathName(p))
  ELSE /\ p \notin DOMAIN fs
       /\ \E q \in FilesIn(fs, PathDir(p)) :
             /\ fs[q].content = last.fs0[p].content
             /\ PathName(q) = IndexFor(tz, scan.mt, fs[q].mtime, fs[q].content)

\* C28: on a directory with a registered media type in which no two files
\* would get the same index, checkIntegrity(fix=True) returns True and has
\* repaired every file: a file named by a valid index keeps its name and has
\* the mtime its index encodes; a file whose name is not a valid index has
\* been renamed to the index of the media type, its mtime and its size.
C28_FixRepairsAll ==
  C28_Fixable =>
    /\ scan.result = "True"
    /\ \A p \in C28_Files : C28_Repaired(p)

\* C28, where it fails: a file with an ordinary name, which carries no date,
\* is left under its name and reported as "Index not set"
C28_PlainNameNotRepaired ==
  /\ C28_Fixable
  /\ scan.result = "DirectoryIntegrityError"
  /\ \E i \in 1..Len(scan.issues) :
        /\ ~C28_HasDate(PathName(scan.issues[i][1]))
        /\ LetterRun(PathName(scan.issues[i][1])) = Len(PathName(scan.issues[i][1]))
        /\ scan.issues[i][2] = "Index not set"
        /\ scan.issues[i][1] \in DOMAIN fs

(***************************************************************************)
(* C29: a freshly indexed file passes the integrity check.                 *)
(***************************************************************************)
\* the file a successful setIndex, or a successful importFile with indexing,
\* has just indexed
C29_JustIndexed ==
  IF last.op = "importFile" /\ last.args.copy THEN last.ret.path ELSE hs[last.h].path

C29_Indexed ==
  /\ \/ last.op = "setIndex"
     \/ last.op = "importFile" /\ last.args.indexing
  /\ last.err = "none"

\* C29: right after a successful setIndex, and after a successful importFile
\* with indexing, the name of the file is a valid index and the mtime of the
\* file is the timestamp that name encodes, whatever the mtime was, so that
\* checkIntegrity(fix=False) has no issue to report for the file.
C29_IndexedFileSound ==
  C29_Indexed =>
    /\ Sound(tz, fs, C29_JustIndexed)
    /\ Visit(tz, fs, C29_JustIndexed, None, FALSE).kind = "pass"

\* C29, where it fails: the mtime had a sub-second part, the index was made
\* of its whole seconds and the file kept its mtime: "Wrong datetime"
C29_FractionLost ==
  /\ C29_Indexed
  /\ last.op = "setIndex"
  /\ ~IsIndex(tz, PathName(Before.path))
  /\ last.fs0[Before.path].mtime[2] # 0
  /\ fs[C29_JustIndexed].mtime = last.fs0[Before.path].mtime
  /\ IndexDatetime(tz, PathName(C29_JustIndexed)) = <<last.fs0[Before.path].mtime[1], 0>>
  /\ Visit(tz, fs, C29_JustIndexed, None, FALSE).note = "Wrong datetime"

(***************************************************************************)
(* C30: checkIntegrity(fix=True) comes to an end.                          *)
(***************************************************************************)
\* the files under the scanned directory that fail a check in filesystem f
C30_Failing(f) == {p \in FilesUnder(f, scan.dir) : ~Sound(tz, f, p)}

C30_Fixing == last.op = "checkIntegrity" /\ scan.fix /\ scan.result # "idle"

\* C30: while checkIntegrity(fix=True) runs and when it has ended, every
\* scan after the first was entered for one more file repaired, and no
\* repaired file has begun to fail again: the files still failing and the
\* scans entered for a repair together are no more than the files that failed
\* at the start.  The depth of the recursion is therefore at most that number
\* plus one, and the call ends.
C30_DepthBounded ==
  C30_Fixing =>
    /\ scan.depth <= Cardinality(C30_Failing(last.fs0)) + 1
    /\ Cardinality(C30_Failing(fs)) + (scan.depth - 1) <= Cardinality(C30_Failing(last.fs0))

\* C30 happens: two files failed, each was repaired in a scan of its own and
\* the third scan returned True
C30_EveryFileItsScan ==
  /\ C30_Fixing
  /\ scan.result = "True"
  /\ Cardinality(C30_Failing(last.fs0)) = 2
  /\ scan.depth = 3
  /\ C30_Failing(fs) = {}

====
